---- MODULE Spec2Model ----
(***************************************************************************)
(* Trade simulator: the order book (services/orderbook.py) and the         *)
(* simulator that owns it (services/simulator.py), with its three roles:   *)
(* the ingest thread (process_orderbook_data), the control thread          *)
(* (set_parameter), the worker threads set_parameter starts, and the       *)
(* output role (get_simulation_results); the observation histories of the  *)
(* two trainable models (models/slippage.py, models/maker_taker.py) and    *)
(* the benchmarker (utils/benchmarking.py).                                *)
(*                                                                         *)
(* Numbers.  Prices and quantities are integers.  volatility is held in    *)
(* hundredths (0.02 is 2, 1.0 is 100).  mid_price is held doubled, so that *)
(* (best_ask + best_bid) / 2 stays an integer.  The arithmetic of          *)
(* get_volume_weighted_price is floating point, with a short significand.  *)
(* Optional values.  Python's None is None == << >>, a value v that may be *)
(* None is Some(v) == << v >>.                                             *)
(* Cost figures.  The floating-point cost figures of a simulation are held *)
(* as the arguments they were computed from (and the number of the run     *)
(* that computed them), not as numbers.                                    *)
(***************************************************************************)
EXTENDS Integers, Sequences, FiniteSets, TLC

VARIABLES
    mode,                \* which callers are at work: "sim", "params", "client", "life", "metrics", "book", ...
    asks,                \* Orderbook.asks: price -> quantity
    bids,                \* Orderbook.bids: price -> quantity
    timestamp,           \* Orderbook.timestamp (exchange and symbol are assigned with it)
    cached_metrics,      \* Orderbook._cached_metrics: {} or {record}
    new_asks,            \* Orderbook.update: local new_asks
    new_bids,            \* Orderbook.update: local new_bids
    update_ret,          \* what the last Orderbook.update returned: "none", "true", "false"
    bad_input,           \* the data of the last update call held a pair that does not parse
    update_count,        \* TradeSimulator.update_count
    params,              \* exchange, spot_asset, order_type, quantity, volatility, fee_tier
    simulation_results,  \* TradeSimulator.simulation_results
    lock,                \* TradeSimulator.lock: Free or the thread that holds it
    pc,                  \* where each thread is
    loc,                 \* run_simulation's locals, per thread
    seen,                \* the ladders a thread's simulation read last
    at_start,            \* simulation_results when a thread's simulation took the lock
    outcome,             \* how a thread's last simulation ended
    call,                \* set_parameter's arguments <<param_name, param_value>>
    ack,                 \* what the last set_parameter returned: "none", "true", "false"
    calls_made,          \* number of set_parameter calls so far
    sim_count,           \* number of simulations that took the lock (stands for datetime.now())
    ticks,               \* snapshots the transport has delivered
    trigger,             \* per worker thread, the set_parameter arguments of the call that started it
    is_running,          \* TradeSimulator.is_running
    stop_returned,       \* stop() has been called and has returned
    at_stop,             \* simulation_results when stop() returned
    result_copy,         \* the dict the last get_simulation_results call gave its caller
    reads,               \* number of get_simulation_results calls so far
    now,                 \* time.time(), in clock ticks
    metrics_timestamp,   \* Orderbook._metrics_timestamp
    metrics_calls,       \* the last two get_metrics calls, latest first: what each found and returned
    last_data,           \* the snapshot the last Orderbook.update call was given
    vwap_ret,            \* the last get_volume_weighted_price call: its arguments, the book, what it returned
    models,              \* SlippageModel and MakerTakerModel: history, is_trained, training_samples, ...
    model_ops,           \* number of add_observation and train_model calls so far
    last_op,             \* the last call on a model, and the model as it was before the call
    params_ret,          \* what the last get_parameters call came to
    bench,               \* TradeSimulator.benchmarker: timings, start_time, is_running
    ctx,                 \* the open measure blocks, innermost last
    bench_log,           \* the last call on the simulator or its benchmarker, and the number of calls
    est_ret,             \* the last direct call of an estimator: its arguments and what it returned
    wsc,                 \* OrderbookWebsocketClient: ws, is_connected, reconnect_attempts, message_count
    ws_log               \* what the client has done: connect() calls, the waits slept, the last handler

vars == <<mode, asks, bids, timestamp, cached_metrics, new_asks, new_bids, update_ret,
          bad_input, update_count, params, simulation_results, lock, pc, loc, seen,
          at_start, outcome, call, ack, calls_made, sim_count, ticks, trigger,
          is_running, stop_returned, at_stop, result_copy, reads, now, metrics_timestamp,
          metrics_calls, last_data, vwap_ret, models, model_ops, last_op, params_ret,
          bench, ctx, bench_log, est_ret, wsc, ws_log>>

bookVars == <<asks, bids, timestamp, cached_metrics, new_asks, new_bids, update_ret, bad_input>>
paramVars == <<params, call, ack, calls_made, trigger>>
simVars == <<loc, seen, at_start, outcome, sim_count>>
lifeVars == <<is_running, stop_returned, at_stop>>
clientVars == <<result_copy, reads>>
clockVars == <<now, metrics_timestamp, metrics_calls>>
modelVars == <<models, model_ops, last_op>>
benchVars == <<bench, ctx, bench_log>>
wsVars == <<wsc, ws_log>>
auxVars == <<vwap_ret, modelVars, params_ret, benchVars, est_ret, wsVars>>
extVars == <<lifeVars, clientVars, clockVars, last_data, auxVars>>
\* everything of extVars but the benchmarker and its open measure blocks
simFrame == <<lifeVars, clientVars, clockVars, last_data, vwap_ret, modelVars, params_ret,
              bench_log, est_ret, wsVars>>

----------------------------------------------------------------------------
(* Bounds *)

MaxDepth == 2      \* Orderbook.max_depth, scaled down from MAX_ORDERBOOK_DEPTH
BatchSize == 2     \* PROCESSING_BATCH_SIZE, scaled down
MaxTicks == 2      \* snapshots the ingest thread handles
MaxCalls == 2      \* set_parameter calls the control thread makes
MaxReads == 2      \* get_simulation_results calls a client makes
MetricsTTL == 2    \* Orderbook._metrics_cache_ttl (0.1 s), in clock ticks
MaxTime == 3       \* clock ticks the model follows
MantissaBits == 3  \* significand width of a float, scaled down from the 53 bits of binary64
FracBits == 2      \* binary places below 1.0 that the floats of the model reach
HistorySize == 3   \* history_size (1000), scaled down
TrainAt == 2       \* observations at which add_observation trains (50), scaled down
MinTrain == 1      \* observations train_model needs (10), scaled down
MaxObs == 5        \* calls made on the two models
MaxHistory == 2    \* Benchmarker.max_history (1000), scaled down
MaxNest == 2       \* measure blocks open at a time
MaxBenchOps == 5   \* start, stop and measure calls followed
MaxReconnectAttempts == 3  \* max_reconnect_attempts (10), scaled down
MaxConnects == 6   \* connect() calls followed
MaxMessages == 1   \* messages followed

----------------------------------------------------------------------------
(* Values *)

None == << >>
Some(v) == << v >>

\* a JSON number, a string that reads as a number, any other string
Num(v) == <<"num", v>>
Str(v) == <<"str", v>>
Txt(s) == <<"txt", s>>

\* float(x): defined on numbers and numeric strings, raises on the rest
CanFloat(x) == x[1] \in {"num", "str"}
Float(x) == x[2]

Min(S) == CHOOSE x \in S : \A y \in S : x <= y
Max(S) == CHOOSE x \in S : \A y \in S : x >= y

EmptyLadder == [p \in {} |-> 0]

RECURSIVE SumQty(_)
SumQty(f) ==
    IF DOMAIN f = {} THEN 0
    ELSE LET p == Min(DOMAIN f)
         IN f[p] + SumQty([q \in DOMAIN f \ {p} |-> f[q]])

----------------------------------------------------------------------------
(* Threads *)

Ingest == <<"ingest", 0>>
Control == <<"control", 0>>
Worker(i) == <<"worker", i>>
Workers == {Worker(i) : i \in 1..MaxCalls}
Threads == {Ingest, Control} \cup Workers

\* the value of TradeSimulator.lock while no thread holds it
Free == <<"free", 0>>

----------------------------------------------------------------------------
(* Orderbook *)

\* update, lines 58-60 and 67-69: float(price_str), float(quantity_str) of every pair
ParseOK(levels) ==
    \A i \in 1..Len(levels) : CanFloat(levels[i][1]) /\ CanFloat(levels[i][2])

\* NewLadder with a filter that lets a quantity of zero through (a faulty variant)
NewLadderKeepsZero(levels) ==
    LET kept == {i \in 1..Len(levels) : Float(levels[i][2]) >= 0}
    IN [p \in {Float(levels[i][1]) : i \in kept} |->
           Float(levels[Max({i \in kept : Float(levels[i][1]) = p})][2])]

\* update, lines 57-62 and 66-71: the dict built from the pairs in order; a pair
\* is stored when its quantity is > 0, a later pair of the same price overwrites
NewLadder(levels) ==
    LET kept == {i \in 1..Len(levels) : Float(levels[i][2]) > 0}
    IN [p \in {Float(levels[i][1]) : i \in kept} |->
           Float(levels[Max({i \in kept : Float(levels[i][1]) = p})][2])]

\* TrimAsks keeping the highest prices (a faulty variant)
TrimAsksKeepsHighest(a) ==
    IF Cardinality(DOMAIN a) > MaxDepth
    THEN LET keep == {p \in DOMAIN a : Cardinality({q \in DOMAIN a : q > p}) < MaxDepth}
         IN [p \in keep |-> a[p]]
    ELSE a

\* _trim_orderbook, lines 97-100: the max_depth lowest ask prices
TrimAsks(a) ==
    IF Cardinality(DOMAIN a) > MaxDepth
    THEN LET keep == {p \in DOMAIN a : Cardinality({q \in DOMAIN a : q < p}) < MaxDepth}
         IN [p \in keep |-> a[p]]
    ELSE a

\* _trim_orderbook, lines 102-105: the max_depth highest bid prices
TrimBids(b) ==
    IF Cardinality(DOMAIN b) > MaxDepth
    THEN LET keep == {p \in DOMAIN b : Cardinality({q \in DOMAIN b : q > p}) < MaxDepth}
         IN [p \in keep |-> b[p]]
    ELSE b

\* get_best_ask, get_best_bid: the price, or None on an empty side
get_best_ask(a) == IF DOMAIN a = {} THEN None ELSE Some(Min(DOMAIN a))
get_best_bid(b) == IF DOMAIN b = {} THEN None ELSE Some(Max(DOMAIN b))

\* get_mid_price, doubled: best_ask + best_bid
get_mid_price(a, b) ==
    IF get_best_ask(a) = None \/ get_best_bid(b) = None THEN None
    ELSE Some(get_best_ask(a)[1] + get_best_bid(b)[1])

\* get_spread
get_spread(a, b) ==
    IF get_best_ask(a) = None \/ get_best_bid(b) = None THEN None
    ELSE Some(get_best_ask(a)[1] - get_best_bid(b)[1])

\* Python truthiness of an optional number: None and 0 are false
Truthy(x) == x # None /\ x[1] # 0

\* get_metrics, lines 304-323: the record computed from the ladders as they are.
\* spread_bps is spread / mid_price * 10000, rounded down; imbalance is held as
\* the pair <<bid volume, ask volume>>.
ComputeMetrics(a, b, ts) ==
    [timestamp |-> ts,
     best_ask |-> get_best_ask(a),
     best_ask_qty |-> IF DOMAIN a = {} THEN None ELSE Some(a[Min(DOMAIN a)]),
     best_bid |-> get_best_bid(b),
     best_bid_qty |-> IF DOMAIN b = {} THEN None ELSE Some(b[Max(DOMAIN b)]),
     mid_price |-> get_mid_price(a, b),
     spread |-> get_spread(a, b),
     spread_bps |-> IF Truthy(get_mid_price(a, b)) /\ Truthy(get_spread(a, b))
                    THEN Some((get_spread(a, b)[1] * 20000) \div get_mid_price(a, b)[1])
                    ELSE None,
     imbalance |-> <<SumQty(b), SumQty(a)>>]

----------------------------------------------------------------------------
(* Snapshots *)

Level(p, q) == <<Str(p), Str(q)>>

\* n levels at prices base+1 .. base+n, quantities alternating 2, 1, 2, ...
Run(base, n) == [i \in 1..n |-> Level(base + i, 1 + (i % 2))]
Reverse(s) == [i \in 1..Len(s) |-> s[Len(s) + 1 - i]]

\* one side of a snapshot, for Orderbook.update called directly
Ladders ==
    { << >>,
      Run(0, MaxDepth),
      Run(0, MaxDepth + 1),
      Reverse(Run(0, MaxDepth + 1)),
      <<Level(1, 0), Level(2, 1)>>,
      <<Level(1, 1), Level(1, 2)>>,
      <<Level(1, 2), Level(1, 0)>>,
      <<Level(3, 0 - 1)>>,
      <<Level(3, 1), Level(1, 0), Level(4, 2), Level(2, 1)>>,
      <<Level(1, 1), <<Str(2), Txt("x")>>, Level(3, 1)>>,
      <<Level(2, 1), <<Txt("x"), Str(1)>>>> }

BookInputs == [ts : {1}, asks : Ladders, bids : Ladders]

\* the snapshots the transport delivers to the simulator: asks above 10, bids
\* up to 10; one with more asks than max_depth, one with more bids than max_depth
\* and best_ask = best_bid, one with a quantity that does not parse
Snapshots ==
    { [ts |-> 1, asks |-> Run(10, MaxDepth + 1), bids |-> <<Level(9, 1), Level(8, 2)>>],
      [ts |-> 2, asks |-> <<Level(10, 1)>>, bids |-> Reverse(Run(7, MaxDepth + 1))],
      [ts |-> 3, asks |-> <<Level(11, 5)>>, bids |-> <<<<Str(9), Txt("x")>>>>] }

\* the books get_volume_weighted_price is called on: two levels a side, more
\* levels than max_depth, an empty side, a thin level in front of a deep one
VwapInputs ==
    { [ts |-> 1, asks |-> <<Level(3, 2), Level(4, 1)>>, bids |-> <<Level(2, 1), Level(1, 2)>>],
      [ts |-> 1, asks |-> Run(4, MaxDepth + 1), bids |-> Reverse(Run(0, MaxDepth + 1))],
      [ts |-> 1, asks |-> << >>, bids |-> <<Level(3, 2)>>],
      [ts |-> 1, asks |-> <<Level(3, 1), Level(4, 10)>>, bids |-> <<Level(2, 1), Level(1, 10)>>] }

\* snapshots that make estimators fall back: a well-formed book, one with
\* best_ask = best_bid, one whose mid price is 0
EstSnapshots ==
    { [ts |-> 1, asks |-> Run(10, MaxDepth + 1), bids |-> <<Level(9, 1), Level(8, 2)>>],
      [ts |-> 2, asks |-> <<Level(10, 1)>>, bids |-> Reverse(Run(7, MaxDepth + 1))],
      [ts |-> 3, asks |-> <<Level(1, 1)>>, bids |-> <<Level(0 - 1, 1)>>] }

Inputs ==
    IF mode = "book" THEN BookInputs
    ELSE IF mode = "vwap" THEN VwapInputs
    ELSE IF mode = "est" THEN EstSnapshots
    ELSE Snapshots

----------------------------------------------------------------------------
(* Orderbook.update, step by step.  The caller is the ingest thread (through
   process_orderbook_data) or, in mode "book", a direct caller. *)

\* ObUpdateBegin where the asks are installed as soon as they are parsed, before
\* the bids are parsed (a faulty variant)
ObUpdateBeginEager(data) ==
    /\ pc[Ingest] = "idle"
    /\ mode # "book" => ticks < MaxTicks
    /\ ticks' = IF mode # "book" THEN ticks + 1 ELSE ticks
    /\ last_data' = data
    /\ timestamp' = data.ts
    /\ bad_input' = ~(ParseOK(data.asks) /\ ParseOK(data.bids))
    /\ IF ParseOK(data.asks) /\ ParseOK(data.bids)
       THEN /\ new_asks' = NewLadder(data.asks)
            /\ new_bids' = NewLadder(data.bids)
            /\ pc' = [pc EXCEPT ![Ingest] = "set_asks"]
            /\ UNCHANGED <<update_ret, asks>>
       ELSE /\ update_ret' = "false"
            /\ asks' = IF ParseOK(data.asks) THEN NewLadder(data.asks) ELSE asks
            /\ UNCHANGED <<new_asks, new_bids, pc>>
    /\ UNCHANGED <<mode, auxVars, lifeVars, clientVars, clockVars, bids, cached_metrics, update_count, simulation_results, lock>>
    /\ UNCHANGED paramVars
    /\ UNCHANGED simVars

\* ObUpdateBegin where process_orderbook_data counts the tick of a snapshot
\* whose update failed (a faulty variant)
ObUpdateBeginCountsFailure(data) ==
    /\ pc[Ingest] = "idle"
    /\ mode # "book" => ticks < MaxTicks
    /\ ticks' = IF mode # "book" THEN ticks + 1 ELSE ticks
    /\ last_data' = data
    /\ timestamp' = data.ts
    /\ bad_input' = ~(ParseOK(data.asks) /\ ParseOK(data.bids))
    /\ IF ParseOK(data.asks) /\ ParseOK(data.bids)
       THEN /\ new_asks' = NewLadder(data.asks)
            /\ new_bids' = NewLadder(data.bids)
            /\ pc' = [pc EXCEPT ![Ingest] = "set_asks"]
            /\ UNCHANGED <<update_ret, update_count>>
       ELSE /\ update_ret' = "false"
            /\ update_count' = update_count + 1
            /\ UNCHANGED <<new_asks, new_bids, pc>>
    /\ UNCHANGED <<mode, auxVars, lifeVars, clientVars, clockVars, asks, bids, cached_metrics, simulation_results, lock>>
    /\ UNCHANGED paramVars
    /\ UNCHANGED simVars

\* update, lines 48-71 (and process_orderbook_data, lines 235-239, on failure):
\* the metadata is assigned, then both sides are parsed into locals; a pair that
\* does not parse raises, update returns False and the caller returns False
ObUpdateBegin(data) ==
    /\ pc[Ingest] = "idle"
    /\ mode # "book" => ticks < MaxTicks
    /\ ticks' = IF mode # "book" THEN ticks + 1 ELSE ticks
    /\ last_data' = data
    /\ timestamp' = data.ts
    /\ bad_input' = ~(ParseOK(data.asks) /\ ParseOK(data.bids))
    /\ IF ParseOK(data.asks) /\ ParseOK(data.bids)
       THEN /\ new_asks' = NewLadder(data.asks)
            /\ new_bids' = NewLadder(data.bids)
            /\ pc' = [pc EXCEPT ![Ingest] = "set_asks"]
            /\ UNCHANGED update_ret
       ELSE /\ update_ret' = "false"
            /\ UNCHANGED <<new_asks, new_bids, pc>>
    /\ UNCHANGED <<mode, auxVars, lifeVars, clientVars, clockVars, asks, bids, cached_metrics, update_count, simulation_results, lock>>
    /\ UNCHANGED paramVars
    /\ UNCHANGED simVars

\* update, line 75: self.asks = new_asks
ObSetAsks ==
    /\ pc[Ingest] = "set_asks"
    /\ asks' = new_asks
    /\ pc' = [pc EXCEPT ![Ingest] = "set_bids"]
    /\ UNCHANGED <<mode, extVars, bids, timestamp, cached_metrics, new_asks, new_bids, update_ret,
                   bad_input, update_count, simulation_results, lock, ticks>>
    /\ UNCHANGED paramVars
    /\ UNCHANGED simVars

\* update, line 76: self.bids = new_bids
ObSetBids ==
    /\ pc[Ingest] = "set_bids"
    /\ bids' = new_bids
    /\ pc' = [pc EXCEPT ![Ingest] = "trim"]
    /\ UNCHANGED <<mode, extVars, asks, timestamp, cached_metrics, new_asks, new_bids, update_ret,
                   bad_input, update_count, simulation_results, lock, ticks>>
    /\ UNCHANGED paramVars
    /\ UNCHANGED simVars

\* update, line 79: self._trim_orderbook(), lines 95-105
ObTrim ==
    /\ pc[Ingest] = "trim"
    /\ asks' = TrimAsks(asks)
    /\ bids' = TrimBids(bids)
    /\ pc' = [pc EXCEPT ![Ingest] = "clear"]
    /\ UNCHANGED <<mode, extVars, timestamp, cached_metrics, new_asks, new_bids, update_ret,
                   bad_input, update_count, simulation_results, lock, ticks>>
    /\ UNCHANGED paramVars
    /\ UNCHANGED simVars

\* ObUpdateEnd where the cached metrics are kept (a faulty variant)
ObUpdateEndKeepsCache ==
    /\ pc[Ingest] = "clear"
    /\ update_ret' = "true"
    /\ new_asks' = EmptyLadder
    /\ new_bids' = EmptyLadder
    /\ pc' = [pc EXCEPT ![Ingest] = "updated"]
    /\ UNCHANGED <<mode, extVars, asks, bids, timestamp, cached_metrics, bad_input,
                   update_count, simulation_results, lock, ticks>>
    /\ UNCHANGED paramVars
    /\ UNCHANGED simVars

\* update, lines 81-89: the cache is cleared and update returns True
ObUpdateEnd ==
    /\ pc[Ingest] = "clear"
    /\ cached_metrics' = {}
    /\ update_ret' = "true"
    /\ new_asks' = EmptyLadder
    /\ new_bids' = EmptyLadder
    /\ pc' = [pc EXCEPT ![Ingest] = "updated"]
    /\ UNCHANGED <<mode, extVars, asks, bids, timestamp, bad_input, update_count, simulation_results,
                   lock, ticks>>
    /\ UNCHANGED paramVars
    /\ UNCHANGED simVars

\* a direct caller of update gets True back
DirectReturn ==
    /\ mode \in {"book", "metrics", "vwap"}
    /\ pc[Ingest] = "updated"
    /\ pc' = [pc EXCEPT ![Ingest] = "idle"]
    /\ UNCHANGED <<mode, extVars, update_count, simulation_results, lock, ticks>>
    /\ UNCHANGED bookVars
    /\ UNCHANGED paramVars
    /\ UNCHANGED simVars

\* ProcessAfterUpdate where run_simulation is called on every tick (a faulty
\* variant)
ProcessAfterUpdateEveryTick ==
    /\ mode # "book"
    /\ pc[Ingest] = "updated"
    /\ update_count' = update_count + 1
    /\ pc' = [pc EXCEPT ![Ingest] = "sim_wait"]
    /\ UNCHANGED <<mode, extVars, simulation_results, lock, ticks>>
    /\ UNCHANGED bookVars
    /\ UNCHANGED paramVars
    /\ UNCHANGED simVars

\* process_orderbook_data, lines 241-254: the tick is counted, and on every
\* PROCESSING_BATCH_SIZE-th tick this thread runs run_simulation itself
ProcessAfterUpdate ==
    /\ mode # "book"
    /\ pc[Ingest] = "updated"
    /\ update_count' = update_count + 1
    /\ pc' = [pc EXCEPT ![Ingest] =
                 IF (update_count + 1) % BatchSize = 0 THEN "sim_wait" ELSE "idle"]
    /\ UNCHANGED <<mode, extVars, simulation_results, lock, ticks>>
    /\ UNCHANGED bookVars
    /\ UNCHANGED paramVars
    /\ UNCHANGED simVars

----------------------------------------------------------------------------
(* TradeSimulator: parameters and the published result *)

ParamNames == {"exchange", "spot_asset", "order_type", "quantity", "volatility", "fee_tier"}
NumericParams == {"quantity", "volatility"}

\* __init__, lines 50-55, from config.py
DefaultParams ==
    [exchange |-> Txt("OKX"), spot_asset |-> Txt("BTC-USDT"), order_type |-> Txt("market"),
     quantity |-> 100, volatility |-> 2, fee_tier |-> Txt("VIP0")]

\* the keys of simulation_results that run_simulation writes
SimKeys == {"timestamp", "slippage", "fees", "market_impact", "net_cost", "maker_taker",
            "performance", "orderbook"}

\* __init__, lines 58-98: the parameters echoed, every figure 0.0 (run 0 is no run)
InitialResults ==
    [timestamp |-> None,
     exchange |-> Txt("OKX"), spot_asset |-> Txt("BTC-USDT"), order_type |-> Txt("market"),
     quantity |-> Num(100), volatility |-> Num(2), fee_tier |-> Txt("VIP0"),
     slippage |-> [run |-> 0, quantity |-> 100, volatility |-> 2, default |-> FALSE],
     fees |-> [run |-> 0, exchange |-> Txt("OKX"), order_type |-> Txt("market"),
               quantity |-> 100, fee_tier |-> Txt("VIP0"), default |-> FALSE],
     market_impact |-> [run |-> 0, quantity |-> 100, volatility |-> 2, default |-> FALSE],
     net_cost |-> [run |-> 0],
     maker_taker |-> [run |-> 0, quantity |-> 100, volatility |-> 2, default |-> FALSE],
     performance |-> [run |-> 0, internal_latency_ms |-> 0],
     orderbook |-> [run |-> 0, best_bid |-> Some(0), best_ask |-> Some(0),
                    mid_price |-> Some(0), spread_bps |-> Some(0)]]

NoMetrics == ComputeMetrics(EmptyLadder, EmptyLadder, 0)
NoView == [asks |-> EmptyLadder, bids |-> EmptyLadder]
NoLoc ==
    [run |-> 0, m |-> NoMetrics,
     slip |-> [quantity |-> 0, volatility |-> 0, default |-> FALSE],
     mt |-> [quantity |-> 0, volatility |-> 0, default |-> FALSE],
     fee |-> [exchange |-> None, order_type |-> None, quantity |-> 0, fee_tier |-> None,
              default |-> FALSE],
     imp |-> [quantity |-> 0, volatility |-> 0, default |-> FALSE]]

\* where a thread goes when its run_simulation returns
Return(t) == IF t \in Workers THEN "done" ELSE "idle"

\* the calls the control surface makes
Calls ==
    { <<"exchange", Txt("BINANCE")>>,
      <<"spot_asset", Txt("ETH-USDT")>>,
      <<"order_type", Txt("limit")>>,
      <<"quantity", Str(300)>>,
      <<"quantity", Num(0)>>,
      <<"quantity", Txt("abc")>>,
      <<"volatility", Num(3)>>,
      <<"volatility", Num(150)>>,
      <<"fee_tier", Txt("VIP1")>>,
      <<"invalid_param", Txt("value")>> }

\* the calls made while the transport delivers every kind of snapshot
SimCalls ==
    { <<"quantity", Str(300)>>,
      <<"invalid_param", Txt("value")>> }

\* the calls made while estimators fall back: an order type that is not a string
EstCalls ==
    { <<"order_type", Num(7)>>,
      <<"quantity", Str(300)>> }

CallInputs ==
    IF mode = "params" THEN Calls
    ELSE IF mode = "est" THEN EstCalls
    ELSE SimCalls

----------------------------------------------------------------------------
(* TradeSimulator.set_parameter: the second definition, lines 168-212, is the
   one bound to the name *)

\* self.<param_name> = param_value, with float() for quantity and volatility
Coerce(name, value) == IF name \in NumericParams THEN Float(value) ELSE value

\* lines 179-197 (and 209-212): an unknown name returns False; a value float()
\* does not take raises and returns False; otherwise the attribute is assigned
SetParameterBegin(name, value) ==
    /\ mode # "book"
    /\ pc[Control] = "idle"
    /\ calls_made < MaxCalls
    /\ calls_made' = calls_made + 1
    /\ call' = <<name, value>>
    /\ IF name \notin ParamNames \/ (name \in NumericParams /\ ~CanFloat(value))
       THEN /\ ack' = "false"
            /\ UNCHANGED <<params, pc>>
       ELSE /\ params' = [params EXCEPT ![name] = Coerce(name, value)]
            /\ pc' = [pc EXCEPT ![Control] = "echo"]
            /\ ack' = "none"
    /\ UNCHANGED <<mode, extVars, update_count, simulation_results, lock, ticks, trigger>>
    /\ UNCHANGED bookVars
    /\ UNCHANGED simVars

\* line 204 with run_simulation called on the calling thread instead (a faulty variant)
RunSimulationInline(k) == [pc EXCEPT ![Control] = "sim_wait"]

\* line 204: threading.Thread(target=self._run_simulation_safe).start()
StartSimulationThread(k) == [pc EXCEPT ![Worker(k)] = "sim_wait", ![Control] = "idle"]

\* line 200 with the coerced value echoed instead of param_value (a faulty variant)
EchoCoerced(r, name, value) ==
    [r EXCEPT ![name] = IF name \in NumericParams THEN Num(Float(value)) ELSE value]

\* line 200: self.simulation_results[param_name] = param_value
Echo(r, name, value) == [r EXCEPT ![name] = value]

\* lines 199-207: the value is echoed into the published result, the simulation
\* is started on a thread of its own, and True is returned
SetParameterEnd ==
    /\ pc[Control] = "echo"
    /\ simulation_results' = Echo(simulation_results, call[1], call[2])
    /\ pc' = StartSimulationThread(calls_made)
    /\ trigger' = [trigger EXCEPT ![Worker(calls_made)] = call]
    /\ ack' = "true"
    /\ UNCHANGED <<mode, extVars, update_count, lock, ticks, params, call, calls_made>>
    /\ UNCHANGED bookVars
    /\ UNCHANGED simVars

\* get_simulation_results, lines 397-398: a copy of the published result, taken
\* under the lock; a call returns only in a state where the lock is free
CanGetResults == lock = Free
get_simulation_results == simulation_results

\* get_simulation_results with the dict copied without taking the lock (a
\* faulty variant)
GetResultsUnlocked ==
    /\ mode = "client"
    /\ reads < MaxReads
    /\ reads' = reads + 1
    /\ result_copy' = simulation_results
    /\ UNCHANGED <<mode, auxVars, last_data, lifeVars, clockVars, update_count, simulation_results, lock, pc, ticks>>
    /\ UNCHANGED bookVars
    /\ UNCHANGED paramVars
    /\ UNCHANGED simVars

\* get_simulation_results, lines 397-398: with self.lock, the caller gets
\* simulation_results.copy(), a new dict whose values are the objects the
\* published dict holds
GetResults ==
    /\ mode = "client"
    /\ CanGetResults
    /\ reads < MaxReads
    /\ reads' = reads + 1
    /\ result_copy' = get_simulation_results
    /\ UNCHANGED <<mode, auxVars, last_data, lifeVars, clockVars, update_count, simulation_results, lock, pc, ticks>>
    /\ UNCHANGED bookVars
    /\ UNCHANGED paramVars
    /\ UNCHANGED simVars

\* the sections of the result that are dicts holding a quantity-dependent figure
NestedSections == {"slippage", "fees", "market_impact", "maker_taker"}

\* The section dict under key k that the caller holds is the one the published
\* dict holds: run_simulation makes a new dict per section and run (lines
\* 346-374), and copy() (line 398) hands out the dicts themselves.
SameObject(k) == simulation_results[k].run = result_copy[k].run

\* the caller changes a figure inside section k of the dict it was given; the
\* change is made to the section dict, whoever else holds it
ClientMutate(k) ==
    /\ mode = "client"
    /\ reads > 0
    /\ result_copy[k].quantity # -1
    /\ result_copy' = [result_copy EXCEPT ![k].quantity = -1]
    /\ simulation_results' =
          IF SameObject(k) THEN [simulation_results EXCEPT ![k].quantity = -1]
          ELSE simulation_results
    /\ UNCHANGED <<mode, auxVars, last_data, lifeVars, clockVars, reads, update_count, lock, pc, ticks>>
    /\ UNCHANGED bookVars
    /\ UNCHANGED paramVars
    /\ UNCHANGED simVars

----------------------------------------------------------------------------
(* Benchmarker (utils/benchmarking.py): the timings of a label and the
   measure blocks.  Times are in clock ticks. *)

BenchLabels == {"full_simulation", "slippage_estimation"}

\* the defaultdict entry of a label, lines 22-29; min_time starts at infinity,
\* held as None
NewTiming ==
    [count |-> 0, total_time |-> 0, min_time |-> None, max_time |-> 0,
     history |-> << >>, last_time |-> 0]

\* Benchmarker.__init__, lines 15-34
NewBenchmarker ==
    [timings |-> [l \in BenchLabels |-> NewTiming], start_time |-> None, is_running |-> FALSE]

NoBenchCall == [op |-> "none", n |-> 0, timed |-> FALSE]

\* the calls are numbered where the benchmarker is followed
Logged(op) ==
    IF mode = "bench" THEN [op |-> op, n |-> bench_log.n + 1, timed |-> FALSE] ELSE bench_log

\* Benchmarker.start, lines 36-39
BenchmarkerStart(b) == [b EXCEPT !.start_time = Some(now), !.is_running = TRUE]

\* Benchmarker.stop, lines 41-43
BenchmarkerStop(b) == [b EXCEPT !.is_running = FALSE]

\* history.append on deque(maxlen=max_history)
HistoryAppend(h, x) == IF Len(h) >= MaxHistory THEN Append(Tail(h), x) ELSE Append(h, x)

\* _record_timing, lines 72-91
RecordTiming(b, label, elapsed_time) ==
    [b EXCEPT !.timings[label] =
        [count |-> @.count + 1,
         total_time |-> @.total_time + elapsed_time,
         min_time |-> IF @.min_time = None THEN Some(elapsed_time)
                      ELSE Some(Min({@.min_time[1], elapsed_time})),
         max_time |-> Max({@.max_time, elapsed_time}),
         history |-> HistoryAppend(@.history, elapsed_time),
         last_time |-> elapsed_time]]

\* get_results, lines 100-126, and simulator.py:379: a label that was never
\* recorded is not in the results, and .get("last_ms", 0.0) gives 0.0
LastMs(b, label) == IF b.timings[label].count > 0 THEN b.timings[label].last_time ELSE 0

\* The measure blocks of run_simulation are followed in mode "latency".
\* measure, lines 59-64: a block opened while the benchmarker runs is timed
MeasureOpened(label) ==
    IF mode = "latency"
    THEN Append(ctx, [label |-> label, timed |-> bench.is_running, start_time |-> now])
    ELSE ctx

\* measure, lines 65-70: the finally clause of the innermost open block
MeasureClosed ==
    IF mode = "latency" /\ ctx # << >> /\ ctx[Len(ctx)].timed
    THEN RecordTiming(bench, ctx[Len(ctx)].label, now - ctx[Len(ctx)].start_time)
    ELSE bench
MeasurePopped == IF mode = "latency" /\ ctx # << >> THEN SubSeq(ctx, 1, Len(ctx) - 1) ELSE ctx

\* a block entered and left at once (run_simulation returning at line 279)
MeasureSkipped(label) ==
    IF mode = "latency" /\ bench.is_running THEN RecordTiming(bench, label, 0) ELSE bench

----------------------------------------------------------------------------
(* TradeSimulator.run_simulation, lines 260-388, run by thread t: the ingest
   thread on a batch boundary, or a worker thread set_parameter started *)

\* Orderbook.get_metrics, lines 297-326.  Whether the cached record is younger
\* than _metrics_cache_ttl is the clock's choice (fresh).
CacheHit(fresh) == cached_metrics # {} /\ fresh
MetricsRead(fresh) ==
    IF CacheHit(fresh) THEN CHOOSE m \in cached_metrics : TRUE
    ELSE ComputeMetrics(asks, bids, timestamp)
CacheAfter(fresh) ==
    IF CacheHit(fresh) THEN cached_metrics ELSE {ComputeMetrics(asks, bids, timestamp)}
SeenAfter(t, fresh) ==
    IF CacheHit(fresh) THEN seen ELSE [seen EXCEPT ![t] = [asks |-> asks, bids |-> bids]]

\* When an estimator raises inside and returns its default instead of an
\* estimate.
\* slippage.py:203, 135 and 181: spread_bps = metrics.get("spread_bps", 10.0)
\* is None when the record holds None, 0.5 * spread_bps raises in predict_slippage
\* and again in its except branch; estimate_slippage_from_orderbook (279-293)
\* returns 10.0 and 20.0 bps
SlippageFails(m) == m.spread_bps = None
\* maker_taker.py:182 and 128 (and 157-161): 1.0 - spread_bps / 50.0 raises,
\* predict_maker_percentage returns 0.1
MakerTakerFails(m) == m.spread_bps = None
\* fees.py:85 (and 116-130): order_type.lower() raises on a value that is not a
\* string (simulator.py:187 stores the value as given); calculate_fees returns
\* zero fees
FeesFail(order_type) == order_type[1] = "num"
\* almgren_chriss.py:52 (and 76-84): quantity / daily_volume raises when
\* daily_volume = mid_price * 1000 is 0; estimate_market_impact returns zero impact
ImpactFails(mid_price) == mid_price = Some(0)

\* lines 265-279: the lock is taken and the metrics are read; with no mid price
\* the simulation returns at once
SimAcquire(t) ==
    /\ pc[t] = "sim_wait"
    /\ lock = Free
    /\ sim_count' = sim_count + 1
    /\ \E fresh \in BOOLEAN :
        /\ cached_metrics' = CacheAfter(fresh)
        /\ IF MetricsRead(fresh).mid_price = None
           THEN /\ pc' = [pc EXCEPT ![t] = Return(t)]
                /\ outcome' = [outcome EXCEPT ![t] = "skipped"]
                /\ bench' = MeasureSkipped("full_simulation")
                /\ UNCHANGED <<lock, loc, seen, at_start, ctx>>
           ELSE /\ lock' = t
                /\ ctx' = MeasureOpened("full_simulation")
                /\ UNCHANGED bench
                /\ pc' = [pc EXCEPT ![t] = "slippage"]
                /\ loc' = [loc EXCEPT ![t] =
                              [NoLoc EXCEPT !.run = sim_count + 1, !.m = MetricsRead(fresh)]]
                /\ seen' = SeenAfter(t, fresh)
                /\ at_start' = [at_start EXCEPT ![t] = simulation_results]
                /\ outcome' = [outcome EXCEPT ![t] = "running"]
    /\ UNCHANGED <<mode, simFrame, asks, bids, timestamp, new_asks, new_bids, update_ret, bad_input,
                   update_count, simulation_results, ticks>>
    /\ UNCHANGED paramVars

\* SimSlippage where the slippage section is written into the published result
\* as soon as it is computed (a faulty variant)
SimSlippageWritesThrough(t) ==
    /\ pc[t] = "slippage"
    /\ \E fresh \in BOOLEAN :
        /\ cached_metrics' = CacheAfter(fresh)
        /\ seen' = SeenAfter(t, fresh)
        /\ loc' = [loc EXCEPT ![t].slip =
                      [quantity |-> params.quantity, volatility |-> params.volatility,
                       default |-> SlippageFails(MetricsRead(fresh))]]
    /\ simulation_results' =
          [simulation_results EXCEPT !.slippage =
              [run |-> loc[t].run, quantity |-> params.quantity,
               volatility |-> params.volatility, default |-> loc'[t].slip.default]]
    /\ pc' = [pc EXCEPT ![t] = "maker_taker"]
    /\ UNCHANGED <<mode, extVars, asks, bids, timestamp, new_asks, new_bids, update_ret, bad_input,
                   update_count, lock, ticks, at_start, outcome,
                   sim_count>>
    /\ UNCHANGED paramVars

\* lines 286-292: estimate_slippage_from_orderbook(orderbook, quantity, mid_price,
\* volatility, "buy"); it reads the metrics again
SimSlippage(t) ==
    /\ pc[t] = "slippage"
    /\ \E fresh \in BOOLEAN :
        /\ cached_metrics' = CacheAfter(fresh)
        /\ seen' = SeenAfter(t, fresh)
        /\ loc' = [loc EXCEPT ![t].slip =
                      [quantity |-> params.quantity, volatility |-> params.volatility,
                       default |-> SlippageFails(MetricsRead(fresh))]]
    /\ pc' = [pc EXCEPT ![t] = "maker_taker"]
    /\ UNCHANGED <<mode, extVars, asks, bids, timestamp, new_asks, new_bids, update_ret, bad_input,
                   update_count, simulation_results, lock, ticks, at_start, outcome,
                   sim_count>>
    /\ UNCHANGED paramVars

\* lines 295-301: predict_maker_taker_from_orderbook(orderbook, quantity, mid_price,
\* volatility, "buy"); it reads the metrics again
SimMakerTaker(t) ==
    /\ pc[t] = "maker_taker"
    /\ \E fresh \in BOOLEAN :
        /\ cached_metrics' = CacheAfter(fresh)
        /\ seen' = SeenAfter(t, fresh)
        /\ loc' = [loc EXCEPT ![t].mt =
                      [quantity |-> params.quantity, volatility |-> params.volatility,
                       default |-> MakerTakerFails(MetricsRead(fresh))]]
    /\ pc' = [pc EXCEPT ![t] = "fees"]
    /\ UNCHANGED <<mode, extVars, asks, bids, timestamp, new_asks, new_bids, update_ret, bad_input,
                   update_count, simulation_results, lock, ticks, at_start, outcome,
                   sim_count>>
    /\ UNCHANGED paramVars

\* lines 304-313: calculate_fees(exchange, order_type, quantity, mid_price, fee_tier,
\* maker_percentage)
SimFees(t) ==
    /\ pc[t] = "fees"
    /\ loc' = [loc EXCEPT ![t].fee =
                  [exchange |-> params.exchange, order_type |-> params.order_type,
                   quantity |-> params.quantity, fee_tier |-> params.fee_tier,
                   default |-> FeesFail(params.order_type)]]
    /\ pc' = [pc EXCEPT ![t] = "impact"]
    /\ UNCHANGED <<mode, extVars, update_count, simulation_results, lock, ticks, seen,
                   at_start, outcome, sim_count>>
    /\ UNCHANGED bookVars
    /\ UNCHANGED paramVars

\* lines 316-324: estimate_market_impact_from_orderbook(orderbook, quantity, mid_price,
\* daily_volume, volatility, True); it reads both ladders for the imbalance
SimImpact(t) ==
    /\ pc[t] = "impact"
    /\ seen' = [seen EXCEPT ![t] = [asks |-> asks, bids |-> bids]]
    /\ loc' = [loc EXCEPT ![t].imp =
                  [quantity |-> params.quantity, volatility |-> params.volatility,
                   default |-> ImpactFails(loc[t].m.mid_price)]]
    /\ pc' = [pc EXCEPT ![t] = "publish"]
    /\ UNCHANGED <<mode, extVars, update_count, simulation_results, lock, ticks,
                   at_start, outcome, sim_count>>
    /\ UNCHANGED bookVars
    /\ UNCHANGED paramVars

\* lines 344-375: what simulation_results.update({...}) makes of the published
\* result r
Published(r, l) ==
    [r EXCEPT !.timestamp = Some(l.run),
              !.slippage = [run |-> l.run, quantity |-> l.slip.quantity,
                            volatility |-> l.slip.volatility, default |-> l.slip.default],
              !.fees = [run |-> l.run, exchange |-> l.fee.exchange,
                        order_type |-> l.fee.order_type, quantity |-> l.fee.quantity,
                        fee_tier |-> l.fee.fee_tier, default |-> l.fee.default],
              !.market_impact = [run |-> l.run, quantity |-> l.imp.quantity,
                                 volatility |-> l.imp.volatility, default |-> l.imp.default],
              !.net_cost = [run |-> l.run],
              !.maker_taker = [run |-> l.run, quantity |-> l.mt.quantity,
                               volatility |-> l.mt.volatility, default |-> l.mt.default],
              !.orderbook = [run |-> l.run, best_bid |-> l.m.best_bid,
                             best_ask |-> l.m.best_ask, mid_price |-> l.m.mid_price,
                             spread_bps |-> l.m.spread_bps]]

\* lines 342-375: the new figures are published in one update() call.
\* float(orderbook_metrics.get("spread_bps", 0.0)) raises when spread_bps is
\* None (line 373, evaluated before update() is called): the exception is
\* logged and the lock released.
SimPublish(t) ==
    /\ pc[t] = "publish"
    /\ IF loc[t].m.spread_bps = None
       THEN /\ outcome' = [outcome EXCEPT ![t] = "raised"]
            /\ lock' = Free
            /\ pc' = [pc EXCEPT ![t] = Return(t)]
            /\ loc' = [loc EXCEPT ![t] = NoLoc]
            /\ seen' = [seen EXCEPT ![t] = NoView]
            /\ at_start' = [at_start EXCEPT ![t] = InitialResults]
            /\ bench' = MeasureClosed
            /\ ctx' = MeasurePopped
            /\ UNCHANGED simulation_results
       ELSE /\ outcome' = [outcome EXCEPT ![t] = "published"]
            /\ simulation_results' = Published(simulation_results, loc[t])
            /\ pc' = [pc EXCEPT ![t] = "performance"]
            /\ UNCHANGED <<lock, loc, seen, at_start, bench, ctx>>
    /\ UNCHANGED <<mode, simFrame, update_count, ticks, sim_count>>
    /\ UNCHANGED bookVars
    /\ UNCHANGED paramVars

\* lines 377-388: simulation_results["performance"] is assigned from the
\* benchmarker's results as they are inside the full_simulation block, then the
\* block ends (its finally clause records this simulation's time) and the lock
\* is released
SimPerformance(t) ==
    /\ pc[t] = "performance"
    /\ simulation_results' =
          [simulation_results EXCEPT !.performance =
              [run |-> loc[t].run, internal_latency_ms |-> LastMs(bench, "full_simulation")]]
    /\ bench' = MeasureClosed
    /\ ctx' = MeasurePopped
    /\ lock' = Free
    /\ pc' = [pc EXCEPT ![t] = Return(t)]
    /\ loc' = [loc EXCEPT ![t] = NoLoc]
    /\ seen' = [seen EXCEPT ![t] = NoView]
    /\ at_start' = [at_start EXCEPT ![t] = InitialResults]
    /\ UNCHANGED <<mode, simFrame, update_count, ticks, sim_count, outcome>>
    /\ UNCHANGED bookVars
    /\ UNCHANGED paramVars

RunSimulation(t) ==
    \/ SimAcquire(t)
    \/ SimSlippage(t)
    \/ SimMakerTaker(t)
    \/ SimFees(t)
    \/ SimImpact(t)
    \/ SimPublish(t)
    \/ SimPerformance(t)

----------------------------------------------------------------------------
(* Orderbook.get_metrics called directly, with the clock followed: in mode
   "metrics" one caller calls update and get_metrics, one call after another *)

\* time passes
Tick ==
    /\ mode \in {"metrics", "bench", "latency"}
    /\ now < MaxTime
    /\ now' = now + 1
    /\ UNCHANGED <<mode, auxVars, last_data, lifeVars, clientVars, metrics_timestamp, metrics_calls, update_count,
                   simulation_results, lock, pc, ticks>>
    /\ UNCHANGED bookVars
    /\ UNCHANGED paramVars
    /\ UNCHANGED simVars

\* line 300 with <= in place of < (a faulty variant)
FreshInclusive == (now - metrics_timestamp) <= MetricsTTL

\* line 300: (current_time - self._metrics_timestamp) < self._metrics_cache_ttl
Fresh == (now - metrics_timestamp) < MetricsTTL

\* the latest calls first, two kept
Remember(c) == IF metrics_calls = << >> THEN <<c>> ELSE <<c, metrics_calls[1]>>

\* get_metrics, lines 297-326: the cached record is returned if there is one
\* and it is fresh; otherwise the record is computed from the book, cached and
\* stamped with the time of the call
GetMetrics ==
    /\ mode = "metrics"
    /\ pc[Ingest] = "idle"
    /\ cached_metrics' = CacheAfter(Fresh)
    /\ metrics_timestamp' = IF CacheHit(Fresh) THEN metrics_timestamp ELSE now
    /\ metrics_calls' = Remember(
          [ret |-> MetricsRead(Fresh),
           at |-> now,
           ticks |-> ticks,
           after_ok |-> update_ret = "true",
           hit |-> CacheHit(Fresh),
           age |-> IF cached_metrics = {} THEN -1 ELSE now - metrics_timestamp,
           cached |-> cached_metrics,
           book |-> ComputeMetrics(asks, bids, timestamp),
           stamp |-> IF CacheHit(Fresh) THEN metrics_timestamp ELSE now])
    /\ UNCHANGED <<mode, auxVars, last_data, lifeVars, clientVars, now, asks, bids, timestamp, new_asks, new_bids,
                   update_ret, bad_input, update_count, simulation_results, lock, pc, ticks>>
    /\ UNCHANGED paramVars
    /\ UNCHANGED simVars

----------------------------------------------------------------------------
(* Floating point.  Python's float is binary64: every product, sum,
   difference and quotient is the exact result rounded to the nearest float,
   ties to the even significand.  The model keeps that rule with a
   significand of MantissaBits bits.  A float is held as a whole number of
   units of 1 / Scale. *)

Scale == 2 ^ FracBits

\* the float of a whole number, and of a number of halves
ToFloat(n) == n * Scale
Halves(n) == (n * Scale) \div 2

\* a / d rounded to the nearest whole number, ties to even (a >= 0, d > 0)
RoundHalfEven(a, d) ==
    LET q == a \div d
        r == a % d
    IN  IF 2 * r < d THEN q
        ELSE IF 2 * r > d THEN q + 1
        ELSE IF q % 2 = 0 THEN q ELSE q + 1

\* the binade of a / b: the least e from e0 on with a / b < 2 ^ (MantissaBits + e)
RECURSIVE Exponent(_, _, _)
Exponent(a, b, e0) ==
    IF a < b * (2 ^ (MantissaBits + e0)) THEN e0 ELSE Exponent(a, b, e0 + 1)

\* the float nearest to a / b units
RoundFloat(a, b) ==
    LET m == IF a < 0 THEN 0 - a ELSE a
        e == Exponent(m, b, 0)
        r == RoundHalfEven(m, b * (2 ^ e)) * (2 ^ e)
    IN  IF a < 0 THEN 0 - r ELSE r

FMul(x, y) == RoundFloat(x * y, Scale)
FDiv(x, y) == RoundFloat(x * Scale, y)
FAdd(x, y) == RoundFloat(x + y, 1)
FSub(x, y) == RoundFloat(x - y, 1)

----------------------------------------------------------------------------
(* Orderbook.get_volume_weighted_price *)

Lower(side) == IF side \in {"BUY", "Buy"} THEN "buy" ELSE side

\* sorted(keys) and sorted(keys, reverse=True)
RECURSIVE Sorted(_)
Sorted(S) == IF S = {} THEN << >> ELSE <<Min(S)>> \o Sorted(S \ {Min(S)})
SortedReverse(S) == Reverse(Sorted(S))

\* zip(prices, quantities) of the side the order takes from, as floats
VwapLevelsAscendingBids(side) ==
    IF Lower(side) = "buy"
    THEN [i \in 1..Cardinality(DOMAIN asks) |->
            [price |-> ToFloat(Sorted(DOMAIN asks)[i]),
             available |-> ToFloat(asks[Sorted(DOMAIN asks)[i]])]]
    ELSE [i \in 1..Cardinality(DOMAIN bids) |->
            [price |-> ToFloat(Sorted(DOMAIN bids)[i]),
             available |-> ToFloat(bids[Sorted(DOMAIN bids)[i]])]]

VwapLevels(side) ==
    IF Lower(side) = "buy"
    THEN [i \in 1..Cardinality(DOMAIN asks) |->
            [price |-> ToFloat(Sorted(DOMAIN asks)[i]),
             available |-> ToFloat(asks[Sorted(DOMAIN asks)[i]])]]
    ELSE [i \in 1..Cardinality(DOMAIN bids) |->
            [price |-> ToFloat(SortedReverse(DOMAIN bids)[i]),
             available |-> ToFloat(bids[SortedReverse(DOMAIN bids)[i]])]]

\* the loop over the levels, from level i on; w holds the loop's variables
RECURSIVE VwapWalk(_, _, _)
VwapWalk(levels, i, w) ==
    IF i > Len(levels) THEN w
    ELSE LET fill_qty == Min({w.remaining_quantity, levels[i].available})
             after == [total_value |-> FAdd(w.total_value, FMul(fill_qty, levels[i].price)),
                       filled_quantity |-> FAdd(w.filled_quantity, fill_qty),
                       remaining_quantity |-> FSub(w.remaining_quantity, fill_qty),
                       fills |-> Append(w.fills, [price |-> levels[i].price,
                                                  available |-> levels[i].available,
                                                  fill_qty |-> fill_qty])]
         IN  IF after.remaining_quantity <= 0 THEN after
             ELSE VwapWalk(levels, i + 1, after)

get_volume_weighted_price(quantity, side) ==
    LET w == VwapWalk(VwapLevels(side), 1,
                      [total_value |-> 0, filled_quantity |-> 0,
                       remaining_quantity |-> quantity, fills |-> << >>])
    IN  [vwap |-> IF w.filled_quantity > 0
                  THEN Some(FDiv(w.total_value, w.filled_quantity))
                  ELSE None,
         filled_quantity |-> w.filled_quantity,
         remaining_quantity |-> w.remaining_quantity,
         total_value |-> w.total_value,
         fills |-> w.fills]

\* the quantities a caller asks for: 0, 1/2, 1, 3/2, 2, 3, 5, 10 and -1
VwapQuantities ==
    {Halves(0), Halves(1), Halves(2), Halves(3), Halves(4), Halves(6), Halves(10),
     Halves(20), Halves(0 - 2)}
VwapSides == {"buy", "BUY", "sell"}

NoVwap == [called |-> FALSE]

\* a call of get_volume_weighted_price on the book as it stands between updates
GetVwap(quantity, side) ==
    /\ mode = "vwap"
    /\ pc[Ingest] = "idle"
    /\ vwap_ret' = [called |-> TRUE, quantity |-> quantity, side |-> side,
                    ret |-> get_volume_weighted_price(quantity, side),
                    book_asks |-> asks, book_bids |-> bids]
    /\ UNCHANGED <<mode, wsVars, est_ret, benchVars, params_ret, modelVars, lifeVars, clientVars, clockVars, last_data, update_count,
                   simulation_results, lock, pc, ticks>>
    /\ UNCHANGED bookVars
    /\ UNCHANGED paramVars
    /\ UNCHANGED simVars

----------------------------------------------------------------------------
(* SlippageModel and MakerTakerModel: the observation history and training.
   An observation is held as [id, label, numeric]: id is its number in order
   of arrival, label is 1 when its target is above 0.5, numeric says that
   all its feature values are numbers. *)

ModelKinds == {"slippage", "maker_taker"}

\* __init__: an empty deque(maxlen=history_size), is_trained = False
NewModel ==
    [history |-> << >>, added |-> 0, is_trained |-> FALSE, training_samples |-> 0,
     fitted |-> None, train_calls |-> 0]

Observations == [label : {0, 1}, numeric : BOOLEAN]

\* deque.append with maxlen: a full deque drops its first entry
DequeAppendUnbounded(h, x) == Append(h, x)

DequeAppend(h, x) ==
    IF Len(h) >= HistorySize THEN Append(Tail(h), x) ELSE Append(h, x)

\* whether fit() takes the history: LinearRegression needs numbers,
\* LogisticRegression needs numbers and both labels among the targets
FitSucceeds(kind, h) ==
    /\ \A i \in 1..Len(h) : h[i].numeric
    /\ kind = "maker_taker" => {h[i].label : i \in 1..Len(h)} = {0, 1}

\* train_model on the model record m: with fewer than 10 observations it
\* returns False; a fit that raises is logged and returns False; otherwise
\* the predictor is fitted on the whole history and is_trained is set
train_model(kind, m) ==
    LET counted == [m EXCEPT !.train_calls = m.train_calls + 1]
    IN  IF Len(m.history) < MinTrain \/ ~FitSucceeds(kind, m.history) THEN counted
        ELSE [counted EXCEPT !.is_trained = TRUE,
                             !.training_samples = Len(m.history),
                             !.fitted = Some(m.history)]

\* the test of add_observation, made on the history as it was before the append
\* (a faulty variant)
ShouldTrainBeforeAppend(before, after, is_trained) ==
    Len(before) >= TrainAt /\ ~is_trained

\* add_observation, line 65: len(history) >= 50 and not self.is_trained
ShouldTrain(before, after, is_trained) ==
    Len(after) >= TrainAt /\ ~is_trained

\* add_observation retraining on every call (a faulty variant)
add_observation_retrains(kind, m, o) ==
    train_model(kind, [m EXCEPT !.history = DequeAppend(m.history, [id |-> m.added + 1, label |-> o.label, numeric |-> o.numeric]),
                                !.added = m.added + 1])

add_observation(kind, m, o) ==
    LET appended ==
            [m EXCEPT !.history = DequeAppend(m.history, [id |-> m.added + 1,
                                                          label |-> o.label,
                                                          numeric |-> o.numeric]),
                      !.added = m.added + 1]
    IN  IF ShouldTrain(m.history, appended.history, m.is_trained)
        THEN train_model(kind, appended)
        ELSE appended

NoOp == [op |-> "none", kind |-> "slippage", before |-> NewModel]

AddObservation(kind, o) ==
    /\ mode \in {"models", "predict"}
    /\ model_ops < MaxObs
    /\ model_ops' = model_ops + 1
    /\ models' = [models EXCEPT ![kind] = add_observation(kind, models[kind], o)]
    /\ last_op' = [op |-> "add_observation", kind |-> kind, before |-> models[kind]]
    /\ UNCHANGED <<mode, wsVars, est_ret, benchVars, params_ret, vwap_ret, lifeVars, clientVars, clockVars, last_data, update_count,
                   simulation_results, lock, pc, ticks>>
    /\ UNCHANGED bookVars
    /\ UNCHANGED paramVars
    /\ UNCHANGED simVars

\* train_model called from outside add_observation
TrainModel(kind) ==
    /\ mode \in {"models", "predict"}
    /\ model_ops < MaxObs
    /\ model_ops' = model_ops + 1
    /\ models' = [models EXCEPT ![kind] = train_model(kind, models[kind])]
    /\ last_op' = [op |-> "train_model", kind |-> kind, before |-> models[kind]]
    /\ UNCHANGED <<mode, wsVars, est_ret, benchVars, params_ret, vwap_ret, lifeVars, clientVars, clockVars, last_data, update_count,
                   simulation_results, lock, pc, ticks>>
    /\ UNCHANGED bookVars
    /\ UNCHANGED paramVars
    /\ UNCHANGED simVars

----------------------------------------------------------------------------
(* TradeSimulator: what a caller of get_parameters gets (app.py, lines 66-69,
   and tests/test_services.py, lines 46-56, call it) *)

\* the methods class TradeSimulator defines, lines 27-416
SimulatorMethods ==
    {"__init__", "start", "stop", "set_parameter", "_run_simulation_safe",
     "process_orderbook_data", "run_simulation", "get_simulation_results",
     "get_performance_metrics"}

\* simulator.<name>: looking up a name the class does not define raises
\* AttributeError
HasMethod(name) == name \in SimulatorMethods

NoCall == [called |-> FALSE, raised |-> FALSE, value |-> None]

\* simulator.get_parameters()
GetParameters ==
    /\ mode = "control"
    /\ pc[Control] = "idle"
    /\ params_ret' = IF HasMethod("get_parameters")
                     THEN [called |-> TRUE, raised |-> FALSE, value |-> Some(params)]
                     ELSE [called |-> TRUE, raised |-> TRUE, value |-> None]
    /\ UNCHANGED <<mode, wsVars, est_ret, benchVars, vwap_ret, modelVars, lifeVars, clientVars, clockVars, last_data,
                   update_count, simulation_results, lock, pc, ticks>>
    /\ UNCHANGED bookVars
    /\ UNCHANGED paramVars
    /\ UNCHANGED simVars

----------------------------------------------------------------------------
(* Benchmarker (utils/benchmarking.py), owned by the simulator, and
   TradeSimulator.start and TradeSimulator.stop *)

\* start, lines 109-115: is_running = True, then benchmarker.start()
Start ==
    /\ mode \in {"life", "bench", "latency"}
    /\ mode = "bench" => bench_log.n < MaxBenchOps
    /\ is_running' = TRUE
    /\ stop_returned' = FALSE
    /\ bench' = BenchmarkerStart(bench)
    /\ bench_log' = Logged("start")
    /\ UNCHANGED <<mode, wsVars, est_ret, vwap_ret, modelVars, params_ret, ctx, last_data, at_stop, clientVars,
                   clockVars, update_count, simulation_results, lock, pc, ticks>>
    /\ UNCHANGED bookVars
    /\ UNCHANGED paramVars
    /\ UNCHANGED simVars

\* stop, lines 117-123: is_running = False, then benchmarker.stop(); nothing
\* else of the simulator is touched and no thread is waited for
Stop ==
    /\ mode \in {"life", "bench"}
    /\ mode = "bench" => bench_log.n < MaxBenchOps
    /\ is_running' = FALSE
    /\ stop_returned' = TRUE
    /\ at_stop' = simulation_results
    /\ bench' = BenchmarkerStop(bench)
    /\ bench_log' = Logged("stop")
    /\ UNCHANGED <<mode, wsVars, est_ret, vwap_ret, modelVars, params_ret, ctx, last_data, clientVars, clockVars,
                   update_count, simulation_results, lock, pc, ticks>>
    /\ UNCHANGED bookVars
    /\ UNCHANGED paramVars
    /\ UNCHANGED simVars

\* measure, lines 59-64: entering "with benchmarker.measure(label)".  When the
\* benchmarker is not running the block runs untimed; otherwise the time is
\* taken.  Blocks nest (run_simulation, lines 268 and 286).
MeasureEnter(label) ==
    /\ mode = "bench"
    /\ bench_log.n < MaxBenchOps
    /\ Len(ctx) < MaxNest
    /\ ctx' = Append(ctx, [label |-> label, timed |-> bench.is_running, start_time |-> now])
    /\ bench_log' = Logged("enter")
    /\ UNCHANGED <<mode, wsVars, est_ret, vwap_ret, modelVars, params_ret, bench, last_data, lifeVars, clientVars,
                   clockVars, update_count, simulation_results, lock, pc, ticks>>
    /\ UNCHANGED bookVars
    /\ UNCHANGED paramVars
    /\ UNCHANGED simVars

\* MeasureExit without the try/finally of lines 65-70: a block that raises
\* records nothing (a faulty variant)
MeasureExitNoFinally(how) ==
    /\ mode = "bench"
    /\ ctx # << >>
    /\ ctx' = SubSeq(ctx, 1, Len(ctx) - 1)
    /\ bench' = IF ctx[Len(ctx)].timed /\ how = "normal"
                THEN RecordTiming(bench, ctx[Len(ctx)].label, now - ctx[Len(ctx)].start_time)
                ELSE bench
    /\ bench_log' = [op |-> how, n |-> bench_log.n, timed |-> ctx[Len(ctx)].timed]
    /\ UNCHANGED <<mode, wsVars, est_ret, vwap_ret, modelVars, params_ret, last_data, lifeVars, clientVars,
                   clockVars, update_count, simulation_results, lock, pc, ticks>>
    /\ UNCHANGED bookVars
    /\ UNCHANGED paramVars
    /\ UNCHANGED simVars

\* measure, lines 65-70: the innermost open block ends, normally or by raising;
\* the finally clause records the elapsed time of a timed block either way
MeasureExit(how) ==
    /\ mode = "bench"
    /\ ctx # << >>
    /\ ctx' = SubSeq(ctx, 1, Len(ctx) - 1)
    /\ bench' = IF ctx[Len(ctx)].timed
                THEN RecordTiming(bench, ctx[Len(ctx)].label, now - ctx[Len(ctx)].start_time)
                ELSE bench
    /\ bench_log' = [op |-> how, n |-> bench_log.n, timed |-> ctx[Len(ctx)].timed]
    /\ UNCHANGED <<mode, wsVars, est_ret, vwap_ret, modelVars, params_ret, last_data, lifeVars, clientVars,
                   clockVars, update_count, simulation_results, lock, pc, ticks>>
    /\ UNCHANGED bookVars
    /\ UNCHANGED paramVars
    /\ UNCHANGED simVars

----------------------------------------------------------------------------
(* FeeModel (models/fees.py).  Rates and fees are floats; a rate is held in
   ten-thousandths (0.0008 is 8), so a fee is in ten-thousandths of the
   quote currency and the effective rate in basis points. *)

NoEstimate == [fn |-> "none"]

\* the float nearest to n
Rate(n) == RoundFloat(ToFloat(n), 1)

\* __init__, lines 20-31: default_fee_structure
fee_structure ==
    [OKX |-> [VIP0 |-> [maker |-> Rate(8), taker |-> Rate(10)],
              VIP1 |-> [maker |-> Rate(7), taker |-> Rate(9)],
              VIP2 |-> [maker |-> Rate(6), taker |-> Rate(8)],
              VIP3 |-> [maker |-> Rate(5), taker |-> Rate(7)],
              VIP4 |-> [maker |-> Rate(3), taker |-> Rate(5)],
              VIP5 |-> [maker |-> Rate(0), taker |-> Rate(3)]]]

\* lines 44-56: an unknown exchange is read as OKX, an unknown tier as VIP0
get_fee_rates(exchange, fee_tier) ==
    LET exchange_fees ==
            IF exchange \in DOMAIN fee_structure THEN fee_structure[exchange]
            ELSE fee_structure["OKX"]
    IN  IF fee_tier \in DOMAIN exchange_fees THEN exchange_fees[fee_tier]
        ELSE exchange_fees["VIP0"]

\* str.lower() on an order type
LowerType(s) == IF s \in {"MARKET", "Market"} THEN "market" ELSE s

\* lines 85-90: order_type.lower() raises on a value that is not a string,
\* min(1.0, None) raises when no maker_percentage was given and line 87 did
\* not replace it
FeesRaise(order_type, maker_percentage) ==
    \/ order_type[1] # "txt"
    \/ maker_percentage = None /\ LowerType(order_type[2]) # "market"

\* line 90: max(0.0, min(1.0, maker_percentage))
Clamp(x) == Max({ToFloat(0), Min({ToFloat(1), x})})

\* the same with line 90 left out
calculate_fees_unclamped(exchange, order_type, quantity, price, fee_tier, maker_percentage) ==
    IF FeesRaise(order_type, maker_percentage)
    THEN [maker_fee |-> 0, taker_fee |-> 0, total_fee |-> 0, maker_fee_rate |-> 0,
          taker_fee_rate |-> 0, effective_fee_rate |-> 0, maker_percentage |-> 0,
          taker_percentage |-> 0, fee_tier |-> fee_tier, notional_value |-> 0]
    ELSE
    LET fee_rates == get_fee_rates(exchange, fee_tier)
        given == IF maker_percentage = None THEN ToFloat(0) ELSE maker_percentage[1]
        taker_pct == FSub(ToFloat(1), given)
        notional_value == FMul(quantity, price)
        maker_fee == FMul(FMul(notional_value, fee_rates.maker), given)
        taker_fee == FMul(FMul(notional_value, fee_rates.taker), taker_pct)
        total_fee == FAdd(maker_fee, taker_fee)
    IN  [maker_fee |-> maker_fee, taker_fee |-> taker_fee, total_fee |-> total_fee,
         maker_fee_rate |-> fee_rates.maker, taker_fee_rate |-> fee_rates.taker,
         effective_fee_rate |->
             IF notional_value > 0 THEN FDiv(total_fee, notional_value) ELSE ToFloat(0),
         maker_percentage |-> given, taker_percentage |-> taker_pct,
         fee_tier |-> fee_tier, notional_value |-> notional_value]

\* lines 78-130
calculate_fees(exchange, order_type, quantity, price, fee_tier, maker_percentage) ==
    IF FeesRaise(order_type, maker_percentage)
    THEN [maker_fee |-> 0, taker_fee |-> 0, total_fee |-> 0, maker_fee_rate |-> 0,
          taker_fee_rate |-> 0, effective_fee_rate |-> 0, maker_percentage |-> 0,
          taker_percentage |-> 0, fee_tier |-> fee_tier, notional_value |-> 0]
    ELSE
    LET fee_rates == get_fee_rates(exchange, fee_tier)
        given == IF maker_percentage = None THEN ToFloat(0) ELSE maker_percentage[1]
        maker_pct == Clamp(given)
        taker_pct == FSub(ToFloat(1), maker_pct)
        notional_value == FMul(quantity, price)
        maker_fee == FMul(FMul(notional_value, fee_rates.maker), maker_pct)
        taker_fee == FMul(FMul(notional_value, fee_rates.taker), taker_pct)
        total_fee == FAdd(maker_fee, taker_fee)
    IN  [maker_fee |-> maker_fee, taker_fee |-> taker_fee, total_fee |-> total_fee,
         maker_fee_rate |-> fee_rates.maker, taker_fee_rate |-> fee_rates.taker,
         effective_fee_rate |->
             IF notional_value > 0 THEN FDiv(total_fee, notional_value) ELSE ToFloat(0),
         maker_percentage |-> maker_pct, taker_percentage |-> taker_pct,
         fee_tier |-> fee_tier, notional_value |-> notional_value]

\* the arguments a caller passes
FeeExchanges == {"OKX", "Binance"}
FeeTiers == {"VIP0", "VIP1", "VIP5", "VIP9"}
FeeOrderTypes == {Txt("market"), Txt("Market"), Txt("limit")}
FeeQuantities == {ToFloat(0), Halves(1), ToFloat(1), ToFloat(3), ToFloat(0 - 1)}
FeePrices == {ToFloat(0), ToFloat(1), ToFloat(3)}
FeeMakerPcts ==
    {None, Some(ToFloat(0)), Some(Halves(1)), Some(ToFloat(1)), Some(Halves(3)),
     Some(Halves(0 - 1))}

\* a call of calculate_fees on a FeeModel as constructed; the function keeps
\* no state, one call is followed
CalculateFees(exchange, order_type, quantity, price, fee_tier, maker_percentage) ==
    /\ mode = "fees"
    /\ est_ret = NoEstimate
    /\ est_ret' = [fn |-> "calculate_fees", exchange |-> exchange,
                   order_type |-> order_type, quantity |-> quantity, price |-> price,
                   fee_tier |-> fee_tier, maker_percentage |-> maker_percentage,
                   ret |-> calculate_fees(exchange, order_type, quantity, price,
                                          fee_tier, maker_percentage)]
    /\ UNCHANGED <<mode, wsVars, vwap_ret, modelVars, params_ret, benchVars, lifeVars, clientVars,
                   clockVars, last_data, update_count, simulation_results, lock, pc, ticks>>
    /\ UNCHANGED bookVars
    /\ UNCHANGED paramVars
    /\ UNCHANGED simVars

----------------------------------------------------------------------------
(* AlmgrenChrissModel.estimate_market_impact (models/almgren_chriss.py) *)

\* the whole number below the square root of n (n >= 0)
ISqrt(n) == CHOOSE r \in 0..n : r * r <= n /\ (r + 1) * (r + 1) > n

\* np.sqrt: the float nearest to the square root of x
FSqrt(x) ==
    LET n == x * Scale
        r == ISqrt(n)
    IN  RoundFloat(2 * r + (IF r * r < n THEN 1 ELSE 0), 2)

\* __init__, line 32: market_impact_factor, a constructor argument (0.1 when
\* none is given), 1/2 here
market_impact_factor == Halves(1)

\* line 52 divides a Python float by daily_volume: on 0.0 it raises
ImpactRaises(daily_volume) == daily_volume = 0

\* line 74 divides a numpy float by price: on 0.0 it gives nan
NaN == "nan"
BasisPoints(total_impact, price) ==
    IF price = 0 THEN NaN ELSE FMul(FDiv(total_impact, price), ToFloat(10000))

ZeroImpact ==
    [temporary_impact |-> 0, permanent_impact |-> 0, total_impact |-> 0,
     total_impact_bps |-> 0]

\* the same with line 65 left out
estimate_market_impact_unsigned(quantity, price, daily_volume, volatility, is_buy) ==
    IF ImpactRaises(daily_volume) THEN ZeroImpact
    ELSE
    LET relative_size == FDiv(quantity, daily_volume)
        sign == IF is_buy THEN ToFloat(1) ELSE ToFloat(0 - 1)
        temporary_impact ==
            FMul(FMul(FMul(FMul(price, market_impact_factor), volatility),
                      FSqrt(relative_size)), sign)
        permanent_impact == FMul(FMul(price, market_impact_factor), relative_size)
        total_impact == FAdd(temporary_impact, permanent_impact)
    IN  [temporary_impact |-> temporary_impact, permanent_impact |-> permanent_impact,
         total_impact |-> total_impact,
         total_impact_bps |-> BasisPoints(total_impact, price)]

\* lines 50-84
estimate_market_impact(quantity, price, daily_volume, volatility, is_buy) ==
    IF ImpactRaises(daily_volume) THEN ZeroImpact
    ELSE
    LET relative_size == FDiv(quantity, daily_volume)
        sign == IF is_buy THEN ToFloat(1) ELSE ToFloat(0 - 1)
        temporary_impact ==
            FMul(FMul(FMul(FMul(price, market_impact_factor), volatility),
                      FSqrt(relative_size)), sign)
        permanent_impact ==
            FMul(FMul(FMul(price, market_impact_factor), relative_size), sign)
        total_impact == FAdd(temporary_impact, permanent_impact)
    IN  [temporary_impact |-> temporary_impact, permanent_impact |-> permanent_impact,
         total_impact |-> total_impact,
         total_impact_bps |-> BasisPoints(total_impact, price)]

\* the arguments a caller passes: an order quantity, a price, a daily volume
\* and a volatility, none of them negative
ImpactQuantities == {ToFloat(0), ToFloat(1), ToFloat(2), ToFloat(4)}
ImpactPrices == {ToFloat(0), ToFloat(4), ToFloat(8)}
ImpactVolumes == {ToFloat(0), ToFloat(1), ToFloat(4)}
ImpactVolatilities == {ToFloat(0), Halves(1), ToFloat(1)}

\* a call of estimate_market_impact; the function keeps no state, one call is
\* followed
EstimateMarketImpact(quantity, price, daily_volume, volatility, is_buy) ==
    /\ mode = "impact"
    /\ est_ret = NoEstimate
    /\ est_ret' = [fn |-> "estimate_market_impact", quantity |-> quantity, price |-> price,
                   daily_volume |-> daily_volume, volatility |-> volatility,
                   is_buy |-> is_buy,
                   ret |-> estimate_market_impact(quantity, price, daily_volume,
                                                  volatility, is_buy)]
    /\ UNCHANGED <<mode, wsVars, vwap_ret, modelVars, params_ret, benchVars, lifeVars, clientVars,
                   clockVars, last_data, update_count, simulation_results, lock, pc, ticks>>
    /\ UNCHANGED bookVars
    /\ UNCHANGED paramVars
    /\ UNCHANGED simVars

----------------------------------------------------------------------------
(* MakerTakerModel.predict_maker_percentage and
   predict_maker_taker_from_orderbook (models/maker_taker.py).  A percentage
   is held in thousandths (0.3 is 300, 1.0 is 1000), quantity_usd in whole
   dollars, spread_bps in whole basis points, imbalance as the pair
   <<bid volume, ask volume>>. *)

\* np.log1p(quantity_usd / 1000), in thousandths, for the order sizes followed
Log1p ==
    (0 :> 0) @@ (1000 :> 693) @@ (100000000 :> 11513) @@ ((0 - 500) :> (0 - 693))

\* imbalance > 1.5 and imbalance < 0.5; with no asks the imbalance is inf
Above15(imbalance) == imbalance[2] = 0 \/ 2 * imbalance[1] > 3 * imbalance[2]
Below05(imbalance) == imbalance[2] # 0 /\ 2 * imbalance[1] < imbalance[2]

\* lines 118-141 without the clamp of line 141
HeuristicUnclamped(features) ==
    LET base_maker_pct ==
            (300 * (1000 - Min({800, Log1p[features.quantity_usd] \div 10}))) \div 1000
        spread_factor == Max({100, 1000 - 20 * features.spread_bps[1]})
        imbalance_factor ==
            IF \/ features.is_buy /\ Above15(features.imbalance)
               \/ ~features.is_buy /\ Below05(features.imbalance)
            THEN 1500 ELSE 1000
    IN  (((base_maker_pct * spread_factor) \div 1000) * imbalance_factor) \div 1000

\* lines 118-141: the heuristic of an untrained model
Heuristic(features) ==
    Max({0, Min({1000, HeuristicUnclamped(features)})})

\* the values predict_proba returns for class 1
Probabilities == {0, 250, 1000}

\* lines 128 and 147-150: 1.0 - spread_bps / 50.0 raises on None, and so does
\* predict_proba on a feature row that holds None
PredictRaises(features) == features.spread_bps = None

\* lines 115-161; proba is what the fitted predictor answers
predict_maker_percentage(is_trained, features, proba) ==
    IF PredictRaises(features) THEN 100
    ELSE IF ~is_trained THEN Heuristic(features)
    ELSE proba

\* line 191: side.lower() raises on a value that is not a string
FromOrderbookRaises(side) == side[1] # "txt"

\* lines 176-244
predict_maker_taker_from_orderbook(m, metrics, quantity_usd, side, proba) ==
    IF FromOrderbookRaises(side)
    THEN [maker_percentage |-> 100, taker_percentage |-> 900, is_model_trained |-> FALSE,
          training_samples |-> 0, path |-> "fallback"]
    ELSE
    LET features == [quantity_usd |-> quantity_usd, spread_bps |-> metrics.spread_bps,
                     imbalance |-> metrics.imbalance, is_buy |-> Lower(side[2]) = "buy"]
        maker_percentage == predict_maker_percentage(m.is_trained, features, proba)
    IN  [maker_percentage |-> maker_percentage,
         taker_percentage |-> 1000 - maker_percentage,
         is_model_trained |-> m.is_trained, training_samples |-> m.training_samples,
         path |-> IF PredictRaises(features) THEN "default"
                  ELSE IF m.is_trained THEN "trained" ELSE "heuristic"]

\* what get_metrics hands to the predictor: a spread that is wide, narrow,
\* zero (None) or negative (a crossed book), and an imbalance
PredictMetrics ==
    [spread_bps : {None, Some(0 - 400), Some(2), Some(100)},
     imbalance : {<<2, 1>>, <<1, 3>>, <<1, 0>>}]
PredictQuantities == DOMAIN Log1p
PredictSides == {Txt("buy"), Txt("sell"), Num(1)}

\* a call of predict_maker_taker_from_orderbook on the maker/taker model as it
\* stands; the call changes nothing in the model, one call is followed
PredictMakerTaker(metrics, quantity_usd, side, proba) ==
    /\ mode = "predict"
    /\ est_ret = NoEstimate
    /\ est_ret' = [fn |-> "predict_maker_taker_from_orderbook",
                   ret |-> predict_maker_taker_from_orderbook(
                               models["maker_taker"], metrics, quantity_usd, side, proba)]
    /\ UNCHANGED <<mode, wsVars, vwap_ret, modelVars, params_ret, benchVars, lifeVars, clientVars,
                   clockVars, last_data, update_count, simulation_results, lock, pc, ticks>>
    /\ UNCHANGED bookVars
    /\ UNCHANGED paramVars
    /\ UNCHANGED simVars

----------------------------------------------------------------------------
(* OrderbookWebsocketClient (services/websocket.py).  ws is the state of the
   WebSocketApp the client holds: "none" before connect(), "connecting" once
   connect() has started its thread, "open" after the library called _on_open,
   "closing" after close(), "closed" when the connection has ended and its
   _on_close has run without a new connect().  The library calls _on_close
   once whenever a connection ends: it could not be made, it dropped, or
   close() was called. *)

\* __init__, line 36: reconnect_delay, in seconds
reconnect_delay == 5

\* __init__, lines 32-41
NewClient ==
    [ws |-> "none", is_connected |-> FALSE, reconnect_attempts |-> 0, message_count |-> 0]

NoWsLog ==
    [connects |-> 0, streak |-> 0, waits |-> << >>, disconnected |-> FALSE,
     last |-> "none", before |-> NewClient]

WsLogged(handler) == [ws_log EXCEPT !.last = handler, !.before = wsc]

\* the wait the same on every attempt (a faulty variant)
reconnect_wait_constant(reconnect_attempts) == reconnect_delay

\* line 138: reconnect_wait = self.reconnect_delay * self.reconnect_attempts
reconnect_wait(reconnect_attempts) == reconnect_delay * reconnect_attempts

\* _on_close reconnecting whatever the count (a faulty variant)
ShouldReconnectAlways(reconnect_attempts) == TRUE

\* line 136: self.reconnect_attempts < self.max_reconnect_attempts
ShouldReconnect(reconnect_attempts) == reconnect_attempts < MaxReconnectAttempts

\* connect(), lines 43-59, called by the owner (app.py, line 150)
WsConnect ==
    /\ mode = "ws"
    /\ wsc.ws = "none"
    /\ wsc' = [wsc EXCEPT !.ws = "connecting"]
    /\ ws_log' = [WsLogged("connect") EXCEPT !.connects = ws_log.connects + 1]
    /\ UNCHANGED <<mode, vwap_ret, modelVars, params_ret, benchVars, est_ret, lifeVars,
                   clientVars, clockVars, last_data, update_count, simulation_results,
                   lock, pc, ticks>>
    /\ UNCHANGED bookVars
    /\ UNCHANGED paramVars
    /\ UNCHANGED simVars

\* _on_open, lines 149-158
WsOnOpen ==
    /\ mode = "ws"
    /\ wsc.ws = "connecting"
    /\ wsc' = [wsc EXCEPT !.ws = "open", !.is_connected = TRUE, !.reconnect_attempts = 0]
    /\ ws_log' = [WsLogged("_on_open") EXCEPT !.streak = 0, !.waits = << >>]
    /\ UNCHANGED <<mode, vwap_ret, modelVars, params_ret, benchVars, est_ret, lifeVars,
                   clientVars, clockVars, last_data, update_count, simulation_results,
                   lock, pc, ticks>>
    /\ UNCHANGED bookVars
    /\ UNCHANGED paramVars
    /\ UNCHANGED simVars

\* _on_message, lines 192-236 (the definition in effect): the message is
\* counted and handed to the callback
WsOnMessage ==
    /\ mode = "ws"
    /\ wsc.ws = "open"
    /\ wsc.message_count < MaxMessages
    /\ wsc' = [wsc EXCEPT !.message_count = wsc.message_count + 1]
    /\ ws_log' = WsLogged("_on_message")
    /\ UNCHANGED <<mode, vwap_ret, modelVars, params_ret, benchVars, est_ret, lifeVars,
                   clientVars, clockVars, last_data, update_count, simulation_results,
                   lock, pc, ticks>>
    /\ UNCHANGED bookVars
    /\ UNCHANGED paramVars
    /\ UNCHANGED simVars

\* disconnect(), lines 61-66, called by the owner: with a connection that is
\* open it calls ws.close() and clears is_connected, otherwise it does nothing
WsDisconnect ==
    /\ mode = "ws"
    /\ wsc.ws # "none" /\ wsc.is_connected
    /\ wsc' = [wsc EXCEPT !.ws = "closing", !.is_connected = FALSE]
    /\ ws_log' = [WsLogged("disconnect") EXCEPT !.disconnected = TRUE]
    /\ UNCHANGED <<mode, vwap_ret, modelVars, params_ret, benchVars, est_ret, lifeVars,
                   clientVars, clockVars, last_data, update_count, simulation_results,
                   lock, pc, ticks>>
    /\ UNCHANGED bookVars
    /\ UNCHANGED paramVars
    /\ UNCHANGED simVars

\* _on_close, lines 123-147, called by the library when the connection has
\* ended: below the cap it counts the attempt, sleeps reconnect_wait seconds and
\* calls connect(); at the cap it gives up
WsOnClose ==
    /\ mode = "ws"
    /\ wsc.ws \in {"connecting", "open", "closing"}
    /\ IF ShouldReconnect(wsc.reconnect_attempts)
       THEN /\ ws_log.connects < MaxConnects
            /\ wsc' = [wsc EXCEPT !.is_connected = FALSE,
                                  !.reconnect_attempts = wsc.reconnect_attempts + 1,
                                  !.ws = "connecting"]
            /\ ws_log' = [WsLogged("_on_close") EXCEPT
                              !.connects = ws_log.connects + 1,
                              !.streak = ws_log.streak + 1,
                              !.waits = Append(ws_log.waits,
                                               reconnect_wait(wsc.reconnect_attempts + 1))]
       ELSE /\ wsc' = [wsc EXCEPT !.is_connected = FALSE, !.ws = "closed"]
            /\ ws_log' = WsLogged("_on_close")
    /\ UNCHANGED <<mode, vwap_ret, modelVars, params_ret, benchVars, est_ret, lifeVars,
                   clientVars, clockVars, last_data, update_count, simulation_results,
                   lock, pc, ticks>>
    /\ UNCHANGED bookVars
    /\ UNCHANGED paramVars
    /\ UNCHANGED simVars

----------------------------------------------------------------------------
(* Specifications *)

\* __init__, lines 104-107, and Orderbook.__init__, lines 33-36; nothing has
\* been read yet
InitExt ==
    /\ is_running = FALSE
    /\ stop_returned = FALSE
    /\ at_stop = InitialResults
    /\ result_copy = InitialResults
    /\ reads = 0
    /\ now = 0
    /\ metrics_timestamp = 0
    /\ metrics_calls = << >>
    /\ last_data = [ts |-> 0, asks |-> << >>, bids |-> << >>]
    /\ vwap_ret = NoVwap
    /\ models = [k \in ModelKinds |-> NewModel]
    /\ model_ops = 0
    /\ last_op = NoOp
    /\ params_ret = NoCall
    /\ bench = NewBenchmarker
    /\ ctx = << >>
    /\ bench_log = NoBenchCall
    /\ est_ret = NoEstimate
    /\ wsc = NewClient
    /\ ws_log = NoWsLog

InitCommon ==
    /\ asks = EmptyLadder
    /\ bids = EmptyLadder
    /\ timestamp = 0
    /\ cached_metrics = {}
    /\ new_asks = EmptyLadder
    /\ new_bids = EmptyLadder
    /\ update_ret = "none"
    /\ bad_input = FALSE
    /\ update_count = 0
    /\ params = DefaultParams
    /\ simulation_results = InitialResults
    /\ lock = Free
    /\ pc = [t \in Threads |-> IF t \in Workers THEN "unborn" ELSE "idle"]
    /\ loc = [t \in Threads |-> NoLoc]
    /\ seen = [t \in Threads |-> NoView]
    /\ at_start = [t \in Threads |-> InitialResults]
    /\ outcome = [t \in Threads |-> "none"]
    /\ call = <<"", None>>
    /\ ack = "none"
    /\ calls_made = 0
    /\ sim_count = 0
    /\ ticks = 0
    /\ trigger = [t \in Workers |-> <<"", None>>]
    /\ InitExt

Init == mode = "sim" /\ InitCommon

\* the simulator before any snapshot, or after one well-formed snapshot was
\* processed (update_count = 1, not a batch boundary), with the transport silent
InitLoaded ==
    \/ InitCommon
    \/ \E d \in {x \in Snapshots : ParseOK(x.asks) /\ ParseOK(x.bids)} :
            /\ asks = TrimAsks(NewLadder(d.asks))
            /\ bids = TrimBids(NewLadder(d.bids))
            /\ timestamp = d.ts
            /\ cached_metrics = {}
            /\ new_asks = EmptyLadder
            /\ new_bids = EmptyLadder
            /\ update_ret = "true"
            /\ bad_input = FALSE
            /\ update_count = 1
            /\ params = DefaultParams
            /\ simulation_results = InitialResults
            /\ lock = Free
            /\ pc = [t \in Threads |-> IF t \in Workers THEN "unborn" ELSE "idle"]
            /\ loc = [t \in Threads |-> NoLoc]
            /\ seen = [t \in Threads |-> NoView]
            /\ at_start = [t \in Threads |-> InitialResults]
            /\ outcome = [t \in Threads |-> "none"]
            /\ call = <<"", None>>
            /\ ack = "none"
            /\ calls_made = 0
            /\ sim_count = 0
            /\ ticks = 1
            /\ trigger = [t \in Workers |-> <<"", None>>]
            /\ InitExt

InitParams == mode = "params" /\ InitLoaded

\* a caller of get_simulation_results beside the control and worker threads
InitClient == mode = "client" /\ InitLoaded

\* the simulator with start and stop called at any time
InitLife == mode = "life" /\ InitCommon

\* a book on its own, its clock running
InitMetrics == mode = "metrics" /\ InitCommon

InitBook == mode = "book" /\ InitCommon

\* the simulator fed the snapshots and calls that make estimators fall back
InitEst == mode = "est" /\ InitCommon

\* the control thread and its workers, with a caller of get_parameters
InitControl == mode = "control" /\ InitLoaded

\* the simulator started and stopped, its benchmarker measuring, as time passes
InitBench == mode = "bench" /\ InitCommon

\* the two models on their own, given observations
InitModels == mode = "models" /\ InitCommon

\* a book on its own, with a caller of get_volume_weighted_price
InitVwap == mode = "vwap" /\ InitCommon

OrderbookUpdate ==
    \/ \E data \in Inputs : ObUpdateBegin(data)
    \/ ObSetAsks
    \/ ObSetBids
    \/ ObTrim
    \/ ObUpdateEnd

Next ==
    \/ OrderbookUpdate
    \/ ProcessAfterUpdate
    \/ \E c \in CallInputs : SetParameterBegin(c[1], c[2])
    \/ SetParameterEnd
    \/ \E t \in Threads : RunSimulation(t)

NextParams ==
    \/ \E c \in CallInputs : SetParameterBegin(c[1], c[2])
    \/ SetParameterEnd
    \/ \E t \in Threads : RunSimulation(t)

NextLife ==
    \/ Start
    \/ Stop
    \/ Next

NextMetrics ==
    \/ OrderbookUpdate
    \/ DirectReturn
    \/ GetMetrics
    \/ Tick

NextClient ==
    \/ \E c \in CallInputs : SetParameterBegin(c[1], c[2])
    \/ SetParameterEnd
    \/ \E t \in Threads : RunSimulation(t)
    \/ GetResults
    \/ \E k \in NestedSections : ClientMutate(k)

NextBook ==
    \/ OrderbookUpdate
    \/ DirectReturn

NextVwap ==
    \/ OrderbookUpdate
    \/ DirectReturn
    \/ \E q \in VwapQuantities, side \in VwapSides : GetVwap(q, side)

\* the simulator with its ingest, control, worker and output threads
Spec == Init /\ [][Next]_vars

\* the control and worker threads, with every kind of set_parameter call
SpecParams == InitParams /\ [][NextParams]_vars

\* the whole simulator, started and stopped
SpecLife == InitLife /\ [][NextLife]_vars

\* the control and worker threads, and a caller of get_simulation_results
SpecClient == InitClient /\ [][NextClient]_vars

\* Orderbook.update and Orderbook.get_metrics called directly, one call after
\* another, as time passes
SpecMetrics == InitMetrics /\ [][NextMetrics]_vars

\* Orderbook.update called directly, one call after another
SpecBook == InitBook /\ [][NextBook]_vars

NextControl ==
    \/ NextParams
    \/ GetParameters

\* set_parameter and get_parameters called one after another, the worker
\* threads running
SpecControl == InitControl /\ [][NextControl]_vars

NextBench ==
    \/ Start
    \/ Stop
    \/ Tick
    \/ \E label \in BenchLabels : MeasureEnter(label)
    \/ \E how \in {"normal", "raise"} : MeasureExit(how)

\* start, stop and measure blocks, one call after another, as time passes
SpecBench == InitBench /\ [][NextBench]_vars

NextModels ==
    \/ \E kind \in ModelKinds, o \in Observations : AddObservation(kind, o)
    \/ \E kind \in ModelKinds : TrainModel(kind)

\* add_observation and train_model called on the two models, one call after
\* another
SpecModels == InitModels /\ [][NextModels]_vars

\* the simulator with its threads, its estimators falling back
SpecEst == InitEst /\ [][Next]_vars

\* Orderbook.update and Orderbook.get_volume_weighted_price called directly,
\* one call after another
SpecVwap == InitVwap /\ [][NextVwap]_vars

\* FeeModel.calculate_fees called directly
InitFees == mode = "fees" /\ InitCommon

NextFees ==
    \E exchange \in FeeExchanges, order_type \in FeeOrderTypes, quantity \in FeeQuantities,
       price \in FeePrices, fee_tier \in FeeTiers, maker_percentage \in FeeMakerPcts :
        CalculateFees(exchange, order_type, quantity, price, fee_tier, maker_percentage)

SpecFees == InitFees /\ [][NextFees]_vars

\* AlmgrenChrissModel.estimate_market_impact called directly
InitImpact == mode = "impact" /\ InitCommon

NextImpact ==
    \E quantity \in ImpactQuantities, price \in ImpactPrices, daily_volume \in ImpactVolumes,
       volatility \in ImpactVolatilities, is_buy \in BOOLEAN :
        EstimateMarketImpact(quantity, price, daily_volume, volatility, is_buy)

SpecImpact == InitImpact /\ [][NextImpact]_vars

\* the maker/taker model given observations and then asked for a prediction
InitPredict == mode = "predict" /\ InitCommon

NextPredict ==
    \/ est_ret = NoEstimate /\ \E o \in Observations : AddObservation("maker_taker", o)
    \/ est_ret = NoEstimate /\ TrainModel("maker_taker")
    \/ \E metrics \in PredictMetrics, quantity_usd \in PredictQuantities,
          side \in PredictSides, proba \in Probabilities :
           PredictMakerTaker(metrics, quantity_usd, side, proba)

SpecPredict == InitPredict /\ [][NextPredict]_vars

\* the websocket client, its owner and the library that calls its handlers
InitWs == mode = "ws" /\ InitCommon

NextWs ==
    \/ WsConnect
    \/ WsOnOpen
    \/ WsOnMessage
    \/ WsDisconnect
    \/ WsOnClose

SpecWs == InitWs /\ [][NextWs]_vars

\* the simulator, its benchmarker started at any time, simulations started by
\* set_parameter, as time passes
InitLatency == mode = "latency" /\ InitLoaded

NextLatency ==
    \/ Start
    \/ Tick
    \/ \E c \in CallInputs : SetParameterBegin(c[1], c[2])
    \/ SetParameterEnd
    \/ \E t \in Threads : RunSimulation(t)

SpecLatency == InitLatency /\ [][NextLatency]_vars

----------------------------------------------------------------------------
(* Claims *)

AtRest == pc[Ingest] \in {"idle", "updated", "clear"}

\* C1: whenever no update is between replacing and trimming the ladders, every
\* stored quantity is > 0 and neither side holds more than max_depth levels
C1_PositiveAndCapped ==
    AtRest =>
        /\ \A p \in DOMAIN asks : asks[p] > 0
        /\ \A p \in DOMAIN bids : bids[p] > 0
        /\ Cardinality(DOMAIN asks) <= MaxDepth
        /\ Cardinality(DOMAIN bids) <= MaxDepth

\* an update whose snapshot held more than max_depth positive ask levels has
\* been trimmed, on a book that holds bids too
C1_Witness ==
    /\ pc[Ingest] = "clear"
    /\ Cardinality(DOMAIN new_asks) > MaxDepth
    /\ Cardinality(DOMAIN asks) = MaxDepth
    /\ bids # EmptyLadder

\* C2: an update call whose snapshot holds a pair that does not parse returns
\* False and leaves asks and bids as they were before the call
C2_FailedUpdateKeepsLadders ==
    [][(pc[Ingest] = "idle" /\ bad_input')
         => (update_ret' = "false" /\ pc'[Ingest] = "idle" /\ asks' = asks /\ bids' = bids)]_vars

\* a failed update on a book that held levels on both sides
C2_Witness ==
    /\ bad_input
    /\ update_ret = "false"
    /\ pc[Ingest] = "idle"
    /\ asks # EmptyLadder
    /\ bids # EmptyLadder

\* the book after a completely processed snapshot, for every snapshot the
\* transport can deliver, and the book before the first one
CommittedBooks ==
    {NoView} \cup
    {[asks |-> TrimAsks(NewLadder(d.asks)), bids |-> TrimBids(NewLadder(d.bids))] :
        d \in {x \in Snapshots : ParseOK(x.asks) /\ ParseOK(x.bids)}}

\* C3: the ladders a running simulation has read are the book after some
\* completely processed snapshot
C3_SimulationReadsCommittedBook == \A t \in Threads : seen[t] \in CommittedBooks

\* C4: the ingest thread is never stopped at the simulator lock while a
\* simulation that set_parameter started holds it
C4_IngestNeverWaitsForSimulation == ~(pc[Ingest] = "sim_wait" /\ lock \in Workers)

\* C5: the control thread never holds the simulator lock and never is inside
\* run_simulation; the second half of set_parameter can always run; a call that
\* returned True has started a worker thread
C5_SetParameterNeverSimulates ==
    /\ lock # Control
    /\ pc[Control] \in {"idle", "echo"}
    /\ pc[Control] = "echo" => ENABLED SetParameterEnd
    /\ (ack = "true" /\ pc[Control] = "idle") => pc[Worker(calls_made)] # "unborn"

\* set_parameter has returned True while another thread holds the lock and the
\* worker it started has not yet taken it
C5_Witness ==
    /\ ack = "true"
    /\ pc[Control] = "idle"
    /\ lock \in Threads \ {Control, Worker(calls_made)}
    /\ pc[Worker(calls_made)] = "sim_wait"

\* no accepted call made after the one that started w names the same parameter
LastCallOnName(w) ==
    \A v \in Workers : (v[2] > w[2] /\ pc[v] # "unborn") => trigger[v][1] # trigger[w][1]

\* C6: once the simulation started by an accepted set_parameter(name, v) has
\* ended, and no later call names the same parameter, results() holds v under name
C6_ResultEchoesParameter ==
    \A w \in Workers :
        (pc[w] = "done" /\ LastCallOnName(w) /\ CanGetResults)
            => get_simulation_results[trigger[w][1]] = trigger[w][2]

\* two accepted calls on different names, both simulations over, one of them
\* published
C6_Witness ==
    /\ \A w \in Workers : pc[w] = "done"
    /\ \E w \in Workers : outcome[w] = "published" /\ trigger[w][1] = "quantity"
    /\ \E w \in Workers : trigger[w][1] = "fee_tier"
    /\ CanGetResults

\* the figures of result r were computed (if at all) with the parameters r echoes
Consistent(r) ==
    /\ r.slippage.run # 0 =>
          /\ CanFloat(r.quantity) /\ Float(r.quantity) = r.slippage.quantity
          /\ CanFloat(r.volatility) /\ Float(r.volatility) = r.slippage.volatility
    /\ r.maker_taker.run # 0 =>
          /\ CanFloat(r.quantity) /\ Float(r.quantity) = r.maker_taker.quantity
          /\ CanFloat(r.volatility) /\ Float(r.volatility) = r.maker_taker.volatility
    /\ r.market_impact.run # 0 =>
          /\ CanFloat(r.quantity) /\ Float(r.quantity) = r.market_impact.quantity
          /\ CanFloat(r.volatility) /\ Float(r.volatility) = r.market_impact.volatility
    /\ r.fees.run # 0 =>
          /\ CanFloat(r.quantity) /\ Float(r.quantity) = r.fees.quantity
          /\ r.exchange = r.fees.exchange
          /\ r.order_type = r.fees.order_type
          /\ r.fee_tier = r.fees.fee_tier

\* C7: what results() returns never echoes a parameter value together with
\* figures computed with another value of that parameter
C7_ResultConsistentWithParameters == CanGetResults => Consistent(get_simulation_results)

\* what the parameter's description requires of a value
Valid(name, value) ==
    /\ name \in ParamNames
    /\ name \in NumericParams => CanFloat(value)
    /\ name = "quantity" => Float(value) > 0
    /\ name = "volatility" => (Float(value) >= 0 /\ Float(value) <= 100)

\* C8: a set_parameter call with an unrecognised name, or a value that fails
\* coercion or validation, returns False, changes no parameter and no part of
\* the published result, and starts no simulation
C8_RejectedCallChangesNothing ==
    [][(calls_made' = calls_made + 1 /\ ~Valid(call'[1], call'[2]))
         => (ack' = "false" /\ params' = params /\ simulation_results' = simulation_results
             /\ pc' = pc)]_vars

\* C9: the active quantity is > 0 and the active volatility is within [0, 1]
C9_ParametersInRange ==
    /\ params.quantity > 0
    /\ params.volatility >= 0
    /\ params.volatility <= 100

SimPart(r) == [k \in SimKeys |-> r[k]]

\* C10: the step in which a simulation aborts changes nothing of the published
\* result, and leaves everything run_simulation writes as it was when the
\* simulation took the lock
C10_AbortKeepsResult ==
    [][\A t \in Threads :
          (pc[t] \in {"sim_wait", "publish"} /\ pc'[t] = Return(t)
             /\ outcome'[t] \in {"skipped", "raised"})
          => /\ simulation_results' = simulation_results
             /\ pc[t] = "publish" => SimPart(simulation_results') = SimPart(at_start[t])]_vars

\* one simulation was skipped for want of a mid price and another raised, after
\* a result was published
C10_Witness ==
    /\ \E t \in Threads : outcome[t] = "skipped"
    /\ \E t \in Threads : outcome[t] = "raised"
    /\ simulation_results.timestamp # None

\* the sections of the result that a full simulation writes
Sections == SimKeys \ {"timestamp"}

\* C11: in every dict get_simulation_results has returned, the slippage, fees,
\* market_impact, net_cost, maker_taker, orderbook and performance sections
\* were all written by one and the same simulation (or all by none)
C11_NoTornResult ==
    reads > 0 => \A j, k \in Sections : result_copy[j].run = result_copy[k].run

\* a result one simulation published was returned, and another simulation is
\* running now
C11_Witness ==
    /\ reads > 0
    /\ result_copy.performance.run > 0
    /\ lock \in Workers

\* C12: every step that changes the published result is taken by the thread
\* that holds the simulator lock
C12_WritesHoldLock ==
    [][simulation_results' # simulation_results => (lock # Free /\ pc'[lock] # pc[lock])]_vars

\* C13: a caller changing the dict get_simulation_results gave it, nested
\* sections included, leaves the published result as it is
C13_CopyIsIndependent ==
    [][(reads' = reads /\ result_copy' # result_copy)
         => simulation_results' = simulation_results]_vars

\* C14: once stop() has returned, no thread enters run_simulation, neither the
\* ingest thread on a batch boundary nor a thread set_parameter starts, and the
\* published result stays what it was when stop() returned
C14_NoSimulationAfterStop ==
    [][(stop_returned /\ stop_returned')
         => /\ \A t \in Threads : pc'[t] = "sim_wait" => pc[t] = "sim_wait"
            /\ simulation_results' = at_stop]_vars

\* the ingest thread leaves Orderbook.update with True
AppliedStep == pc[Ingest] = "updated" /\ pc'[Ingest] # "updated"

\* C15: update_count changes only when a snapshot was applied, and then by one;
\* the ingest thread enters run_simulation exactly in those steps that make
\* update_count a multiple of PROCESSING_BATCH_SIZE
C15_TickAndBatch ==
    [][/\ update_count' # update_count => AppliedStep
       /\ AppliedStep => update_count' = update_count + 1
       /\ (pc[Ingest] # "sim_wait" /\ pc'[Ingest] = "sim_wait")
            <=> (AppliedStep /\ update_count' % BatchSize = 0)]_vars

\* the ingest thread ran a simulation on the tick that made update_count the
\* batch size, and published
C15_Witness ==
    /\ update_count = BatchSize
    /\ outcome[Ingest] = "published"
    /\ pc[Ingest] = "idle"

\* C16: process_orderbook_data of a snapshot holding a pair that does not parse
\* returns False, with asks, bids, update_count and the published result as
\* they were, and without the ingest thread entering run_simulation
C16_MalformedSnapshotSkipped ==
    [][(pc[Ingest] = "idle" /\ ticks' = ticks + 1 /\ bad_input')
         => /\ update_ret' = "false"
            /\ pc'[Ingest] = "idle"
            /\ asks' = asks /\ bids' = bids
            /\ update_count' = update_count
            /\ simulation_results' = simulation_results]_vars

\* a malformed snapshot was refused by a simulator that holds a book, has
\* counted a tick and has published a result
C16_Witness ==
    /\ bad_input
    /\ update_ret = "false"
    /\ pc[Ingest] = "idle"
    /\ update_count > 0
    /\ asks # EmptyLadder /\ bids # EmptyLadder
    /\ simulation_results.timestamp # None

\* the latest get_metrics call and the one before it
LastCall == metrics_calls[1]
CallBefore == metrics_calls[2]

C18_CacheCoherence ==
    (Len(metrics_calls) = 2 /\ CallBefore.ticks = LastCall.ticks
        /\ LastCall.at - CallBefore.at < MetricsTTL)
    => LastCall.ret = CallBefore.ret

\* C19 as the specification words it: a call that finds a cached record of
\* age <= metrics_ttl returns it; a call that finds an older one recomputes
\* from the book and restamps
C19_ServedUpToTTL ==
    (metrics_calls # << >> /\ LastCall.age >= 0)
    => IF LastCall.age <= MetricsTTL
       THEN LastCall.hit /\ {LastCall.ret} = LastCall.cached
       ELSE ~LastCall.hit /\ LastCall.ret = LastCall.book /\ LastCall.stamp = LastCall.at

\* C19, amended: a call that finds a cached record of age < metrics_ttl returns
\* it and leaves the stamp; a call that finds one of age >= metrics_ttl
\* recomputes from the book and restamps
C19_ServedBelowTTL ==
    (metrics_calls # << >> /\ LastCall.age >= 0)
    => IF LastCall.age < MetricsTTL
       THEN LastCall.hit /\ {LastCall.ret} = LastCall.cached
            /\ LastCall.stamp = LastCall.at - LastCall.age
       ELSE ~LastCall.hit /\ LastCall.ret = LastCall.book /\ LastCall.stamp = LastCall.at

\* a call found the cached record younger than metrics_ttl and returned it; the
\* next found it exactly metrics_ttl old
C19_Witness ==
    /\ Len(metrics_calls) = 2
    /\ CallBefore.hit
    /\ LastCall.age = MetricsTTL
    /\ ~LastCall.hit

\* the prices a side of a snapshot gives with a quantity > 0
PositivePrices(levels) ==
    {Float(levels[i][1]) : i \in {j \in 1..Len(levels) : Float(levels[j][2]) > 0}}

\* the quantities a side of a snapshot gives, > 0, at price p
QuantitiesAt(levels, p) ==
    {Float(levels[i][2]) :
        i \in {j \in 1..Len(levels) : Float(levels[j][1]) = p /\ Float(levels[j][2]) > 0}}

\* the n lowest, the n highest elements of S (all of S if it has fewer)
Lowest(S, n) == {p \in S : Cardinality({q \in S : q < p}) < n}
Highest(S, n) == {p \in S : Cardinality({q \in S : q > p}) < n}

\* the last update call returned True and no other has begun
UpdateDone == pc[Ingest] = "updated" \/ (pc[Ingest] = "idle" /\ update_ret = "true")

\* C20: after an update call that returned True, the ask prices held are the
\* max_depth lowest prices the snapshot gave with a positive quantity (all of
\* them if fewer), the bid prices the max_depth highest, each with a quantity
\* the snapshot gave for it
C20_TrimKeepsBestLevels ==
    UpdateDone =>
        /\ DOMAIN asks = Lowest(PositivePrices(last_data.asks), MaxDepth)
        /\ DOMAIN bids = Highest(PositivePrices(last_data.bids), MaxDepth)
        /\ \A p \in DOMAIN asks : asks[p] \in QuantitiesAt(last_data.asks, p)
        /\ \A p \in DOMAIN bids : bids[p] \in QuantitiesAt(last_data.bids, p)

\* a snapshot gave more than max_depth positive levels on both sides, neither
\* side in ascending order of price, and both sides were cut
C20_Witness ==
    /\ pc[Ingest] = "updated"
    /\ Cardinality(PositivePrices(last_data.asks)) > MaxDepth
    /\ Cardinality(PositivePrices(last_data.bids)) > MaxDepth
    /\ Float(last_data.asks[1][1]) > Float(last_data.asks[2][1])
    /\ Float(last_data.bids[1][1]) > Float(last_data.bids[2][1])
    /\ Cardinality(DOMAIN asks) = MaxDepth
    /\ Cardinality(DOMAIN bids) = MaxDepth

\* the side of the book the last get_volume_weighted_price call took from, and
\* its total liquidity (an exact sum)
VwapBook == IF Lower(vwap_ret.side) = "buy" THEN vwap_ret.book_asks ELSE vwap_ret.book_bids
VwapLiquidity == SumQty(VwapBook) * Scale

\* the levels of the taken side that are better than price p
Better(p) ==
    IF Lower(vwap_ret.side) = "buy"
    THEN {x \in DOMAIN VwapBook : ToFloat(x) < p}
    ELSE {x \in DOMAIN VwapBook : ToFloat(x) > p}

\* the float sums of fill_qty * price and of fill_qty over the first n fills
RECURSIVE FillValue(_, _)
FillValue(f, n) ==
    IF n = 0 THEN 0 ELSE FAdd(FillValue(f, n - 1), FMul(f[n].fill_qty, f[n].price))
RECURSIVE FillQuantity(_, _)
FillQuantity(f, n) ==
    IF n = 0 THEN 0 ELSE FAdd(FillQuantity(f, n - 1), f[n].fill_qty)

\* C21: get_volume_weighted_price takes from the levels best first (asks by
\* rising price for a buy, bids by falling price for a sell), takes a level
\* whole before it touches the next, and returns the average price of the
\* amounts taken, weighted by the amounts (as floating point computes it);
\* with nothing filled it returns None
C21_BestFirstWeightedAverage ==
    vwap_ret.called =>
        LET f == vwap_ret.ret.fills
            n == Len(f)
        IN  /\ n <= Cardinality(DOMAIN VwapBook)
            /\ \A i \in 1..n :
                   /\ \E p \in DOMAIN VwapBook :
                          /\ ToFloat(p) = f[i].price
                          /\ ToFloat(VwapBook[p]) = f[i].available
                   /\ Cardinality(Better(f[i].price)) = i - 1
                   /\ f[i].fill_qty <= f[i].available
                   /\ i < n => f[i].fill_qty = f[i].available
            /\ vwap_ret.ret.filled_quantity = FillQuantity(f, n)
            /\ IF FillQuantity(f, n) > 0
               THEN vwap_ret.ret.vwap = Some(FDiv(FillValue(f, n), FillQuantity(f, n)))
               ELSE vwap_ret.ret.vwap = None

\* a sell that takes the best bid whole and a part of the next bid
C21_Witness ==
    /\ vwap_ret.called
    /\ vwap_ret.side = "sell"
    /\ Len(vwap_ret.ret.fills) = 2
    /\ vwap_ret.ret.fills[1].price > vwap_ret.ret.fills[2].price
    /\ vwap_ret.ret.fills[2].fill_qty < vwap_ret.ret.fills[2].available
    /\ vwap_ret.ret.vwap # None

\* C22: if the liquidity of the taken side is at least the requested quantity
\* then remaining = 0 and filled = requested; otherwise remaining > 0 and
\* filled is the liquidity of that side
C22_FillExhaustion ==
    vwap_ret.called =>
        IF VwapLiquidity >= vwap_ret.quantity
        THEN /\ vwap_ret.ret.remaining_quantity = 0
             /\ vwap_ret.ret.filled_quantity = vwap_ret.quantity
        ELSE /\ vwap_ret.ret.remaining_quantity > 0
             /\ vwap_ret.ret.filled_quantity = VwapLiquidity

\* C23: with a positive amount filled, the returned vwap is at least best_ask
\* for a buy and at most best_bid for a sell
C23_VwapNotBetterThanBest ==
    (vwap_ret.called /\ vwap_ret.ret.filled_quantity > 0) =>
        IF Lower(vwap_ret.side) = "buy"
        THEN vwap_ret.ret.vwap[1] >= ToFloat(Min(DOMAIN vwap_ret.book_asks))
        ELSE vwap_ret.ret.vwap[1] <= ToFloat(Max(DOMAIN vwap_ret.book_bids))

\* some estimator of the run held in l fell back to its default
SomeDefault(l) == l.slip.default \/ l.mt.default \/ l.fee.default \/ l.imp.default

\* C24: a full simulation in which an estimator step failed inside and gave
\* its default goes on to the end and publishes a new result, which carries
\* that default
C24_FallbackThenPublish ==
    [][\A t \in Threads :
          (pc[t] = "publish" /\ pc'[t] # "publish" /\ SomeDefault(loc[t]))
              => /\ outcome'[t] = "published"
                 /\ simulation_results'.timestamp = Some(loc[t].run)
                 /\ simulation_results'.slippage.default = loc[t].slip.default
                 /\ simulation_results'.maker_taker.default = loc[t].mt.default
                 /\ simulation_results'.fees.default = loc[t].fee.default
                 /\ simulation_results'.market_impact.default = loc[t].imp.default]_vars

\* the model the last call was made on, as it is now
ModelNow == models[last_op.kind]

\* C25: add_observation appends the observation to the history, and calls
\* train_model exactly when the history then holds at least TrainAt (50)
\* observations and the model is not trained
C25_TrainsAtThreshold ==
    last_op.op = "add_observation" =>
        /\ ModelNow.added = last_op.before.added + 1
        /\ Len(ModelNow.history) >= 1
        /\ ModelNow.history[Len(ModelNow.history)].id = ModelNow.added
        /\ \A i \in 1..(Len(ModelNow.history) - 1) :
               \E j \in 1..Len(last_op.before.history) :
                   last_op.before.history[j] = ModelNow.history[i]
        /\ IF Len(ModelNow.history) >= TrainAt /\ ~last_op.before.is_trained
           THEN ModelNow.train_calls = last_op.before.train_calls + 1
           ELSE ModelNow.train_calls = last_op.before.train_calls

\* the observation that brings the history to TrainAt entries trains the model
C25_Witness ==
    /\ last_op.op = "add_observation"
    /\ Len(last_op.before.history) = TrainAt - 1
    /\ Len(ModelNow.history) = TrainAt
    /\ ModelNow.train_calls = last_op.before.train_calls + 1
    /\ ModelNow.is_trained

\* C26: once is_trained is true nothing sets it back to false, and a later
\* add_observation does not train again: training_samples and the fitted
\* predictor stay as they were
C26_TrainedLatch ==
    [][\A k \in ModelKinds :
          models[k].is_trained =>
              /\ models'[k].is_trained
              /\ last_op'.op = "add_observation" =>
                     /\ models'[k].training_samples = models[k].training_samples
                     /\ models'[k].fitted = models[k].fitted
                     /\ models'[k].train_calls = models[k].train_calls]_vars

\* a trained model that was given an observation after its training
C26_Witness ==
    /\ last_op.op = "add_observation"
    /\ last_op.before.is_trained
    /\ ModelNow.is_trained
    /\ ModelNow.added > ModelNow.training_samples
    /\ ModelNow.fitted # Some(ModelNow.history)

\* C27: a history never holds more than HistorySize (1000) entries; it holds
\* the latest observations in order of arrival, the oldest having been dropped
C27_HistoryBounded ==
    \A k \in ModelKinds :
        /\ Len(models[k].history) <= HistorySize
        /\ Len(models[k].history) = Min({models[k].added, HistorySize})
        /\ \A i \in 1..Len(models[k].history) :
               models[k].history[i].id = models[k].added - Len(models[k].history) + i

\* a full history that was given one more observation
C27_Witness ==
    /\ last_op.op = "add_observation"
    /\ Len(last_op.before.history) = HistorySize
    /\ Len(ModelNow.history) = HistorySize
    /\ ModelNow.history[1].id = last_op.before.history[2].id

\* C28: get_parameters returns the current parameter set: the defaults at
\* first, and after set_parameter calls, for each name the value of the last
\* accepted change
C28_GetParametersReturnsCurrent ==
    params_ret.called =>
        /\ ~params_ret.raised
        /\ params_ret.value = Some(params)

\* C29: start() called on a simulator that is already started leaves the
\* simulator and its benchmarker (running flag, start stamp, recorded
\* timings) as they were
C29_StartIdempotent ==
    [][(bench_log'.op = "start" /\ bench_log'.n # bench_log.n
            /\ is_running /\ bench.is_running)
          => (is_running' = is_running /\ bench' = bench)]_vars

\* the open measure block that a step closes
Closing == ctx[Len(ctx)]

\* C30: a measure block entered while the benchmarker was running records
\* exactly one sample under its label when it ends, normally or by raising:
\* the label's count grows by one, its history by one entry (up to
\* MaxHistory, for 1000), and no other label is touched
C30_MeasureRecordsOnce ==
    [][(Len(ctx') < Len(ctx) /\ Closing.timed)
          => /\ bench_log'.op \in {"normal", "raise"}
             /\ bench'.timings[Closing.label].count = bench.timings[Closing.label].count + 1
             /\ Len(bench'.timings[Closing.label].history) =
                    Min({Len(bench.timings[Closing.label].history) + 1, MaxHistory})
             /\ bench'.timings[Closing.label].history[Len(bench'.timings[Closing.label].history)]
                    = now - Closing.start_time
             /\ bench'.timings[Closing.label].last_time = now - Closing.start_time
             /\ \A l \in BenchLabels \ {Closing.label} : bench'.timings[l] = bench.timings[l]]_vars

\* a timed block that ended by raising, its label's history already full
C30_Witness ==
    /\ bench_log.op = "raise"
    /\ bench_log.timed
    /\ \E l \in BenchLabels :
          /\ bench.timings[l].count = MaxHistory + 1
          /\ Len(bench.timings[l].history) = MaxHistory
          /\ bench.timings[l].last_time > 0

----------------------------------------------------------------------------
(* calculate_fees *)

\* the calls the fee arithmetic is defined on: a maker percentage was given,
\* or none on a market order
FeeCall ==
    /\ est_ret.fn = "calculate_fees"
    /\ ~FeesRaise(est_ret.order_type, est_ret.maker_percentage)

\* x / y as a float, for y of either sign
Quotient(x, y) == IF y < 0 THEN FDiv(0 - x, 0 - y) ELSE FDiv(x, y)

FeeArithmetic(effective(_, _)) ==
    LET r == est_ret.ret
        rates == get_fee_rates(est_ret.exchange, est_ret.fee_tier)
        given == IF est_ret.maker_percentage = None THEN ToFloat(0)
                 ELSE est_ret.maker_percentage[1]
        notional == FMul(est_ret.quantity, est_ret.price)
    IN  /\ r.maker_percentage >= ToFloat(0) /\ r.maker_percentage <= ToFloat(1)
        /\ r.maker_percentage =
               (IF given < ToFloat(0) THEN ToFloat(0)
                ELSE IF given > ToFloat(1) THEN ToFloat(1) ELSE given)
        /\ r.maker_fee = FMul(FMul(notional, rates.maker), r.maker_percentage)
        /\ r.taker_fee =
               FMul(FMul(notional, rates.taker), FSub(ToFloat(1), r.maker_percentage))
        /\ r.total_fee = FAdd(r.maker_fee, r.taker_fee)
        /\ r.effective_fee_rate = effective(r.total_fee, notional)
        /\ (LowerType(est_ret.order_type[2]) = "market" /\ given = ToFloat(0))
               => r.maker_fee = 0 /\ r.total_fee = r.taker_fee

----------------------------------------------------------------------------
(* estimate_market_impact *)

ImpactParts == {"temporary_impact", "permanent_impact", "total_impact"}

\* the call with the same arguments and the other side
OtherSide ==
    estimate_market_impact(est_ret.quantity, est_ret.price, est_ret.daily_volume,
                           est_ret.volatility, ~est_ret.is_buy)

\* C32: for identical quantity, price, daily_volume and volatility the buy and
\* the sell estimate have temporary, permanent and total impacts of equal
\* magnitude and opposite sign: none below zero for a buy, none above for a
\* sell, and all three above (below) zero when the four arguments are positive.
C32_ImpactSignLaw ==
    est_ret.fn = "estimate_market_impact" =>
        LET buy == IF est_ret.is_buy THEN est_ret.ret ELSE OtherSide
            sell == IF est_ret.is_buy THEN OtherSide ELSE est_ret.ret
        IN  \A k \in ImpactParts :
                /\ sell[k] = 0 - buy[k]
                /\ buy[k] >= 0
                /\ (/\ est_ret.quantity > 0 /\ est_ret.price > 0
                    /\ est_ret.daily_volume > 0 /\ est_ret.volatility > 0)
                       => buy[k] > 0 /\ sell[k] < 0

\* a sell was estimated whose two components are both below zero
C32_Witness ==
    /\ est_ret.fn = "estimate_market_impact"
    /\ ~est_ret.is_buy
    /\ est_ret.ret.temporary_impact < 0
    /\ est_ret.ret.permanent_impact < 0
    /\ est_ret.ret.total_impact = est_ret.ret.temporary_impact + est_ret.ret.permanent_impact

----------------------------------------------------------------------------
(* maker/taker predictions *)

\* C33: every maker/taker prediction, by the untrained heuristic, the trained
\* predictor or a failure fallback, has maker_percentage in [0,1] and
\* taker_percentage = 1 - maker_percentage, so the pair a simulation publishes
\* lies in [0,1] and sums to 1.
C33_MakerTakerSplit ==
    est_ret.fn = "predict_maker_taker_from_orderbook" =>
        LET r == est_ret.ret
        IN  /\ r.maker_percentage >= 0 /\ r.maker_percentage <= 1000
            /\ r.taker_percentage >= 0 /\ r.taker_percentage <= 1000
            /\ r.taker_percentage = 1000 - r.maker_percentage
            /\ r.maker_percentage + r.taker_percentage = 1000

\* the heuristic answered with its value clamped to 1
C33_Witness ==
    /\ est_ret.fn = "predict_maker_taker_from_orderbook"
    /\ est_ret.ret.path = "heuristic"
    /\ est_ret.ret.maker_percentage = 1000
    /\ est_ret.ret.taker_percentage = 0

\* a trained predictor answered
C33_WitnessTrained ==
    /\ est_ret.fn = "predict_maker_taker_from_orderbook"
    /\ est_ret.ret.path = "trained"
    /\ est_ret.ret.maker_percentage = 250

----------------------------------------------------------------------------
(* the reconnection loop *)

\* C34: after a close the client makes at most max_reconnect_attempts
\* reconnect attempts in a row without a successful open between them, a
\* successful open sets the attempt counter to 0, and a close handled at the
\* cap calls connect() no more.
C34_ReconnectBounded ==
    [][/\ ws_log'.streak <= MaxReconnectAttempts
       /\ ws_log'.last = "_on_open" => wsc'.reconnect_attempts = 0 /\ ws_log'.streak = 0
       /\ (ws_log'.last = "_on_close" /\ ws_log.streak < MaxReconnectAttempts)
              => /\ ws_log'.connects = ws_log.connects + 1
                 /\ ws_log'.streak = ws_log.streak + 1
       /\ (ws_log'.last = "_on_close" /\ ws_log.streak >= MaxReconnectAttempts)
              => /\ ws_log'.connects = ws_log.connects
                 /\ wsc'.ws = "closed"]_vars

\* the cap was reached and the client gave up
C34_Witness ==
    /\ wsc.ws = "closed"
    /\ ws_log.streak = MaxReconnectAttempts
    /\ ws_log.last = "_on_close"
    /\ ws_log.connects > MaxReconnectAttempts + 1

\* the waits of a run of three attempts or more
Ratios(ok(_, _, _)) ==
    \A k \in 1..Len(ws_log.waits) :
        k + 2 <= Len(ws_log.waits)
            => ok(ws_log.waits[k], ws_log.waits[k + 1], ws_log.waits[k + 2])

\* C35 as stated: the wait before the k-th consecutive reconnect attempt grows
\* exponentially with k: each wait is the previous wait times one fixed
\* factor above 1.
C35_ExponentialBackoff ==
    /\ \A k \in 1..Len(ws_log.waits) :
           k > 1 => ws_log.waits[k] > ws_log.waits[k - 1]
    /\ Ratios(LAMBDA a, b, c : b * b = a * c)

\* C35 as amended: the wait grows linearly with k: the wait before the k-th
\* consecutive attempt is k times reconnect_delay, each wait the previous
\* wait plus reconnect_delay.
C35_LinearBackoff ==
    /\ Len(ws_log.waits) = ws_log.streak
    /\ \A k \in 1..Len(ws_log.waits) :
           /\ ws_log.waits[k] = k * reconnect_delay
           /\ k > 1 => ws_log.waits[k] = ws_log.waits[k - 1] + reconnect_delay

\* three attempts in a row, each after its wait
C35_Witness ==
    /\ Len(ws_log.waits) = 3
    /\ ws_log.waits[3] - ws_log.waits[2] = ws_log.waits[2] - ws_log.waits[1]
    /\ wsc.ws = "connecting"

\* C39: after the owner's disconnect() on a connected client no new connection
\* is opened: the close that disconnect() causes starts no reconnection.
C39_DisconnectStaysClosed ==
    [][ws_log.disconnected => ws_log'.connects = ws_log.connects]_vars

----------------------------------------------------------------------------
(* run_simulation on a book with a spread that is not positive *)

\* C36: a full simulation on a book with both sides non-empty (the mid price
\* known) always publishes a new result, also when best_ask = best_bid or the
\* book is crossed.
C36_NonPositiveSpreadPublishes ==
    [][\A t \in Threads :
          (/\ pc[t] = "publish" /\ pc'[t] # "publish"
           /\ loc[t].m.best_ask # None /\ loc[t].m.best_bid # None)
              => /\ outcome'[t] = "published"
                 /\ simulation_results'.timestamp = Some(loc[t].run)
                 /\ simulation_results'.orderbook.run = loc[t].run]_vars

----------------------------------------------------------------------------
(* one parameter set per simulation *)

\* C37: each published result is computed from a single parameter set: the
\* slippage, maker/taker, fee and impact steps of the simulation that published
\* it used the same quantity and the same volatility, also when set_parameter
\* runs while the simulation does.
C37_OneParameterSetPerResult ==
    LET r == simulation_results
    IN  r.timestamp # None =>
            /\ r.maker_taker.quantity = r.slippage.quantity
            /\ r.fees.quantity = r.slippage.quantity
            /\ r.market_impact.quantity = r.slippage.quantity
            /\ r.maker_taker.volatility = r.slippage.volatility
            /\ r.market_impact.volatility = r.slippage.volatility

----------------------------------------------------------------------------
(* the metadata of a book after a failed update *)

\* C38: an update call whose snapshot holds a pair that does not parse leaves
\* the book's timestamp (and the exchange and symbol assigned with it) as it
\* was, so the metrics record computed from the book after the failure is the
\* one of the last snapshot that was applied
C38_FailedUpdateKeepsMetadata ==
    [][(pc[Ingest] = "idle" /\ bad_input' /\ update_ret' = "false")
         => /\ timestamp' = timestamp
            /\ ComputeMetrics(asks', bids', timestamp') = ComputeMetrics(asks, bids, timestamp)]_vars

----------------------------------------------------------------------------
(* the latency a result carries *)

\* the full_simulation block a thread's simulation is in, and its time so far
Running == ctx[Len(ctx)]
Elapsed == now - Running.start_time

\* C40: the internal_latency_ms a timed simulation publishes is the elapsed
\* time of that simulation, the time its full_simulation block records when
\* it ends: not the time of an earlier simulation and not 0.0
C40_LatencyOfThisSimulation ==
    [][\A t \in Threads :
          (pc[t] = "performance" /\ pc'[t] # "performance" /\ ctx # << >> /\ Running.timed)
              => /\ simulation_results'.performance.run = loc[t].run
                 /\ simulation_results'.performance.internal_latency_ms = Elapsed
                 /\ bench'.timings["full_simulation"].last_time = Elapsed]_vars

====
